---- MODULE Spec2Model ----
(***************************************************************************)
(* ReliableSharedMutex (include/ReliableSharedMutex.hpp): a reader-writer  *)
(* lock built on a FreeRTOS binary semaphore (m_write_semaphore) and a     *)
(* FreeRTOS mutex (m_read_count_mutex) that guards m_reader_count and      *)
(* m_writer_waiting, together with the shared_lock / unique_lock guards    *)
(* built on it.  Every FreeRTOS call (xSemaphoreTake, xSemaphoreGive,      *)
(* vTaskDelay) is a scheduling point; the statements a task executes       *)
(* between taking and giving m_read_count_mutex form one step.             *)
(*                                                                         *)
(* LockableObject (include/LockableObject.hpp): an object guarded by a     *)
(* std::shared_timed_mutex and reached through ScopedAccess accessors that *)
(* are built from timed std::shared_lock / std::unique_lock guards.        *)
(***************************************************************************)
EXTENDS Integers, FiniteSets

\* Number of tasks using the lock.
NumThreads == 3
\* Largest number of read accessors one task keeps alive at the same time.
MaxNest == 2
\* Number of attempts the retry loop of try_lock_shared() makes inside its
\* max_wait window before it gives up.
MaxTries == 2
\* Number of guard objects a task has room for.
MaxGuards == 3
\* Largest value a task stores in the protected object; 0 stands for the
\* default-constructed value protectedType{}.
MaxValue == 2

\* Number of LockableObject instances whose address can be registered with
\* setStaticInstance().
NumInstances == 2
\* Largest timeout, in milliseconds, a task passes to getReadAccess(timeout) or
\* getWriteAccess(timeout).
MaxTimeout == 11

Threads == 1..NumThreads
Guards == 1..MaxGuards
Values == 1..MaxValue
Default == 0
Instances == 1..NumInstances
\* The null pointer, the value of sm_instance{} before any registration.
Null == 0
\* LockableObject::minBlockTime, in milliseconds.
minBlockTime == 10
\* The timeouts tasks pass: negative, zero, just below the floor, the floor
\* and above it.
Timeouts == {0 - 1, 0, minBlockTime - 1, minBlockTime, MaxTimeout}

\* The classes whose instance the tasks share.
Objects == {"ReliableSharedMutex", "LockableObject", "ScopedLockAccess"}

\* The classes that hand out accessors to a protected object.  For a
\* ScopedLockAccess, m_mutex and m_protected stand for its members m_mutex
\* (a std::shared_mutex) and m_db.
AccessorObjects == {"LockableObject", "ScopedLockAccess"}

\* A guard slot that holds no guard object.  The field other records the slot
\* of the guard given to the move constructor that built this one, 0 for the
\* other constructors (history).
NoGuard ==
    [life |-> "free", kind |-> "shared", m_mutex |-> "null", m_owns |-> FALSE,
     other |-> 0]

VARIABLES
    m_write_semaphore,   \* TRUE: the binary semaphore is available
    m_read_count_mutex,  \* 0: free, otherwise the task that holds it
    m_reader_count,      \* number of active readers
    m_writer_waiting,    \* a writer is waiting or active
    pc,                  \* pc[t]: the statement task t is about to execute
    op,                  \* op[t]: the operation t is in, or has just returned from
    m_owns,              \* m_owns[t]: m_owns of the guard t has just constructed
    tries,               \* tries[t]: failed attempts of t's try_lock_shared() loop
    writerSeen,          \* writerSeen[t]: a writer was waiting or active at some
                         \* moment since t called try_lock_shared() (history)
    readGuards,          \* readGuards[t]: Held shared_lock guards alive in t
    writeGuard,          \* writeGuard[t]: t has a Held unique_lock guard alive
    m_mutex,             \* LockableObject::m_mutex, a std::shared_timed_mutex:
                         \* its exclusive owner (0: none) and its shared owners
    m_protected,         \* LockableObject::m_protected, the protected object
    object,              \* the class of the object the tasks share
    guards,              \* guards[g]: the shared_lock / unique_lock object in
                         \* slot g of a task: its members m_mutex and m_owns,
                         \* and whether it is alive or has been destroyed
    sm_instance,         \* LockableObject::sm_instance: Null or the instance
                         \* registered
    registered,          \* the argument of the latest setStaticInstance() call
                         \* (history)
    instance,            \* instance[t]: the instance the latest getInstance()
                         \* of task t returned a reference to (Null: none yet)
    aborted,             \* an assertion has failed, or a signal has been
                         \* raised, and ended the process
    raced,               \* a store into the protected object has raced with
                         \* another task's access: the behaviour of the
                         \* program is undefined from then on
    timeout_duration,    \* timeout_duration[t]: the timeout t passed to the
                         \* getReadAccess(timeout) / getWriteAccess(timeout)
                         \* it is in
    actual_timeout,      \* actual_timeout[t]: the timeout that call waits with
    notHeld              \* notHeld[t]: t is inside unlock() or unlock_shared()
                         \* and did not hold the lock when it called (history)

vars == <<m_write_semaphore, m_read_count_mutex, m_reader_count, m_writer_waiting,
          pc, op, m_owns, tries, writerSeen, readGuards, writeGuard, m_mutex,
          m_protected, object, guards, sm_instance, registered, instance, aborted,
          raced, timeout_duration, actual_timeout, notHeld>>

lockState == <<m_write_semaphore, m_read_count_mutex, m_reader_count, m_writer_waiting>>
clientState == <<readGuards, writeGuard>>
callState == <<tries, writerSeen>>
taskState == <<pc, op, m_owns, tries, writerSeen, readGuards, writeGuard>>
lockableState == <<m_mutex, m_protected>>
instanceState == <<sm_instance, registered, instance, aborted, raced>>
timedState == <<timeout_duration, actual_timeout>>

TypeOK ==
    /\ m_write_semaphore \in BOOLEAN
    /\ m_read_count_mutex \in 0..NumThreads
    /\ m_reader_count \in Int
    /\ m_writer_waiting \in BOOLEAN
    /\ pc \in [Threads -> STRING]
    /\ op \in [Threads -> STRING]
    /\ m_owns \in [Threads -> BOOLEAN]
    /\ tries \in [Threads -> 0..MaxTries]
    /\ writerSeen \in [Threads -> BOOLEAN]
    /\ readGuards \in [Threads -> 0..MaxNest]
    /\ writeGuard \in [Threads -> BOOLEAN]
    /\ m_mutex \in [exclusive : 0..NumThreads, shared : Nat]
    /\ m_protected \in {Default} \cup Values
    /\ object \in Objects
    /\ guards \in [Guards -> [life : {"free", "alive", "destroyed"},
                              kind : {"shared", "unique"},
                              m_mutex : {"null", "m"}, m_owns : BOOLEAN,
                              other : {0} \cup Guards]]
    /\ sm_instance \in {Null} \cup Instances
    /\ registered \in {Null} \cup Instances
    /\ instance \in [Threads -> {Null} \cup Instances]
    /\ aborted \in BOOLEAN
    /\ raced \in BOOLEAN
    /\ timeout_duration \in [Threads -> Timeouts \cup {0}]
    /\ actual_timeout \in [Threads -> Timeouts \cup {0}]
    /\ notHeld \in [Threads -> BOOLEAN]

\* ReliableSharedMutex(): count 0, flag clear, binary semaphore given once,
\* mutex created free.  LockableObject: m_mutex{} is owned by nobody and
\* m_protected{} is default-constructed and sm_instance{} is null.  No task
\* has called anything yet and no guard object exists.  The tasks share an
\* object of class o.
InitFor(o) ==
    /\ m_write_semaphore = TRUE
    /\ m_read_count_mutex = 0
    /\ m_reader_count = 0
    /\ m_writer_waiting = FALSE
    /\ pc = [t \in Threads |-> "idle"]
    /\ op = [t \in Threads |-> "none"]
    /\ m_owns = [t \in Threads |-> FALSE]
    /\ tries = [t \in Threads |-> 0]
    /\ writerSeen = [t \in Threads |-> FALSE]
    /\ readGuards = [t \in Threads |-> 0]
    /\ writeGuard = [t \in Threads |-> FALSE]
    /\ m_mutex = [exclusive |-> 0, shared |-> 0]
    /\ m_protected = Default
    /\ object = o
    /\ guards = [g \in Guards |-> NoGuard]
    /\ sm_instance = Null
    /\ registered = Null
    /\ instance = [t \in Threads |-> Null]
    /\ aborted = FALSE
    /\ raced = FALSE
    /\ timeout_duration = [t \in Threads |-> 0]
    /\ actual_timeout = [t \in Threads |-> 0]
    /\ notHeld = [t \in Threads |-> FALSE]

Init == InitFor("ReliableSharedMutex")

LockableInit == InitFor("LockableObject")

----
(* FreeRTOS primitives *)

\* xSemaphoreTake(m_read_count_mutex, ...) can succeed for task t.
MutexFree == m_read_count_mutex = 0

\* xSemaphoreTake(m_write_semaphore, ...) can succeed.
WriteSemaphoreAvailable == m_write_semaphore = TRUE

\* Task t goes to statement l.
Goto(t, l) == pc' = [pc EXCEPT ![t] = l]

\* Task t enters operation o at statement l.
Call(t, o, l) ==
    /\ pc[t] = "idle"
    /\ pc' = [pc EXCEPT ![t] = l]
    /\ op' = [op EXCEPT ![t] = o]
    /\ m_owns' = [m_owns EXCEPT ![t] = FALSE]

\* Task t leaves the operation it is in.
Finish(t) ==
    /\ pc' = [pc EXCEPT ![t] = "idle"]
    /\ op' = [op EXCEPT ![t] = "none"]
    /\ m_owns' = [m_owns EXCEPT ![t] = FALSE]

\* The guard constructor of task t finishes with m_owns = b.
Constructed(t, b) ==
    /\ pc' = [pc EXCEPT ![t] = "done"]
    /\ m_owns' = [m_owns EXCEPT ![t] = b]

\* A writer is waiting or active: some task is inside lock(), try_lock() or
\* unlock(), or holds exclusive ownership.
WriterWaitingOrActive ==
    \E t \in Threads :
        \/ writeGuard[t]
        \/ op[t] \in {"lock", "try_lock", "unlock"} /\ pc[t] # "done"

\* Task t is inside try_lock_shared(), or has returned from it and not yet
\* gone on.
InTryLockShared(t) == op[t] = "try_lock_shared"

\* A writer enters lock() or try_lock(): every try_lock_shared() call in
\* progress has now overlapped a writer.
WriterArrives ==
    writerSeen' = [u \in Threads |-> writerSeen[u] \/ InTryLockShared(u)]

----
(* lock(), called from unique_lock(Mutex&) *)

\* A task may block in lock() only while it holds nothing itself.
CallLock(t) ==
    /\ readGuards[t] = 0
    /\ ~writeGuard[t]
    /\ object = "ReliableSharedMutex"
    /\ Call(t, "lock", "lock_take_mutex")
    /\ WriterArrives
    /\ UNCHANGED lockableState
    /\ UNCHANGED <<object, guards, instanceState, timedState, notHeld>>
    /\ UNCHANGED <<lockState, tries, clientState>>

\* line 44: xSemaphoreTake(m_read_count_mutex, portMAX_DELAY)
LockTakeMutex(t) ==
    /\ pc[t] = "lock_take_mutex"
    /\ MutexFree
    /\ m_read_count_mutex' = t
    /\ Goto(t, "lock_set_flag")
    /\ UNCHANGED lockableState
    /\ UNCHANGED <<object, guards, instanceState, timedState, notHeld>>
    /\ UNCHANGED <<m_write_semaphore, m_reader_count, m_writer_waiting,
                   op, m_owns, callState, clientState>>
\* Mutant of LockSetFlag: the mutex is not given (line 55) before lock() goes
\* on to take the write semaphore.
LockSetFlag_KeepsMutex(t) ==
    /\ pc[t] = "lock_set_flag"
    /\ m_read_count_mutex = t
    /\ m_writer_waiting' = TRUE
    /\ IF m_reader_count > 0
         THEN /\ m_read_count_mutex' = 0
              /\ Goto(t, "lock_drain_delay")
         ELSE /\ UNCHANGED m_read_count_mutex
              /\ Goto(t, "lock_take_semaphore")
    /\ UNCHANGED lockableState
    /\ UNCHANGED <<object, guards, instanceState, timedState, notHeld>>
    /\ UNCHANGED <<m_write_semaphore, m_reader_count, op, m_owns, callState, clientState>>

\* lines 45-55: set the flag, test the reader count, give the mutex; then
\* either the delay of the drain loop or the take of the write semaphore.
LockSetFlag(t) ==
    /\ pc[t] = "lock_set_flag"
    /\ m_read_count_mutex = t
    /\ m_writer_waiting' = TRUE
    /\ m_read_count_mutex' = 0
    /\ IF m_reader_count > 0
         THEN Goto(t, "lock_drain_delay")
         ELSE Goto(t, "lock_take_semaphore")
    /\ UNCHANGED lockableState
    /\ UNCHANGED <<object, guards, instanceState, timedState, notHeld>>
    /\ UNCHANGED <<m_write_semaphore, m_reader_count, op, m_owns, callState, clientState>>

\* lines 50-51: vTaskDelay(1), then take the mutex again
LockDrainRetake(t) ==
    /\ pc[t] = "lock_drain_delay"
    /\ MutexFree
    /\ m_read_count_mutex' = t
    /\ Goto(t, "lock_drain_check")
    /\ UNCHANGED lockableState
    /\ UNCHANGED <<object, guards, instanceState, timedState, notHeld>>
    /\ UNCHANGED <<m_write_semaphore, m_reader_count, m_writer_waiting,
                   op, m_owns, callState, clientState>>

\* lines 48-49 / 55: the loop test with the mutex held, then give the mutex
LockDrainCheck(t) ==
    /\ pc[t] = "lock_drain_check"
    /\ m_read_count_mutex = t
    /\ m_read_count_mutex' = 0
    /\ IF m_reader_count > 0
         THEN Goto(t, "lock_drain_delay")
         ELSE Goto(t, "lock_take_semaphore")
    /\ UNCHANGED lockableState
    /\ UNCHANGED <<object, guards, instanceState, timedState, notHeld>>
    /\ UNCHANGED <<m_write_semaphore, m_reader_count, m_writer_waiting,
                   op, m_owns, callState, clientState>>

\* Mutant of LockTakeSemaphore: the take of the write semaphore does not wait
\* for the semaphore to be available.
LockTakeSemaphore_NoWait(t) ==
    /\ pc[t] = "lock_take_semaphore"
    /\ m_write_semaphore' = FALSE
    /\ Constructed(t, TRUE)
    /\ writeGuard' = [writeGuard EXCEPT ![t] = TRUE]
    /\ UNCHANGED lockableState
    /\ UNCHANGED <<object, guards, instanceState, timedState, notHeld>>
    /\ UNCHANGED <<m_read_count_mutex, m_reader_count, m_writer_waiting,
                   op, callState, readGuards>>

\* line 56: xSemaphoreTake(m_write_semaphore, portMAX_DELAY); lock() returns
\* and unique_lock sets m_owns = true (line 198).
LockTakeSemaphore(t) ==
    /\ pc[t] = "lock_take_semaphore"
    /\ WriteSemaphoreAvailable
    /\ m_write_semaphore' = FALSE
    /\ Constructed(t, TRUE)
    /\ writeGuard' = [writeGuard EXCEPT ![t] = TRUE]
    /\ UNCHANGED lockableState
    /\ UNCHANGED <<object, guards, instanceState, timedState, notHeld>>
    /\ UNCHANGED <<m_read_count_mutex, m_reader_count, m_writer_waiting,
                   op, callState, readGuards>>

----
(* try_lock(), called from unique_lock(Mutex&, try_to_lock) *)

CallTryLock(t) ==
    /\ ~writeGuard[t]
    /\ object = "ReliableSharedMutex"
    /\ Call(t, "try_lock", "try_lock_take_mutex")
    /\ WriterArrives
    /\ UNCHANGED lockableState
    /\ UNCHANGED <<object, guards, instanceState, timedState, notHeld>>
    /\ UNCHANGED <<lockState, tries, clientState>>

\* lines 61-63: xSemaphoreTake(m_read_count_mutex, 0)
TryLockTakeMutex(t) ==
    /\ pc[t] = "try_lock_take_mutex"
    /\ IF MutexFree
         THEN /\ m_read_count_mutex' = t
              /\ Goto(t, "try_lock_check")
              /\ UNCHANGED m_owns
         ELSE /\ Constructed(t, FALSE)
              /\ UNCHANGED m_read_count_mutex
    /\ UNCHANGED lockableState
    /\ UNCHANGED <<object, guards, instanceState, timedState, notHeld>>
    /\ UNCHANGED <<m_write_semaphore, m_reader_count, m_writer_waiting,
                   op, callState, clientState>>

\* Mutant of TryLockCheck: the test of the reader count (line 66) is left out.
TryLockCheck_IgnoresReaders(t) ==
    /\ pc[t] = "try_lock_check"
    /\ m_read_count_mutex = t
    /\ m_read_count_mutex' = 0
    /\ IF ~WriteSemaphoreAvailable
         THEN /\ Constructed(t, FALSE)
              /\ UNCHANGED <<m_write_semaphore, m_writer_waiting, writeGuard>>
         ELSE /\ m_write_semaphore' = FALSE
              /\ m_writer_waiting' = TRUE
              /\ Constructed(t, TRUE)
              /\ writeGuard' = [writeGuard EXCEPT ![t] = TRUE]
    /\ UNCHANGED lockableState
    /\ UNCHANGED <<object, guards, instanceState, timedState, notHeld>>
    /\ UNCHANGED <<m_reader_count, op, callState, readGuards>>

\* Mutant of TryLockCheck: the flag is set (line 77) before the tests, so a
\* failed try_lock() leaves it set.
TryLockCheck_SetsFlagFirst(t) ==
    /\ pc[t] = "try_lock_check"
    /\ m_read_count_mutex = t
    /\ m_read_count_mutex' = 0
    /\ m_writer_waiting' = TRUE
    /\ IF m_reader_count > 0 \/ ~WriteSemaphoreAvailable
         THEN /\ Constructed(t, FALSE)
              /\ UNCHANGED <<m_write_semaphore, writeGuard>>
         ELSE /\ m_write_semaphore' = FALSE
              /\ Constructed(t, TRUE)
              /\ writeGuard' = [writeGuard EXCEPT ![t] = TRUE]
    /\ UNCHANGED lockableState
    /\ UNCHANGED <<object, guards, instanceState, timedState, notHeld>>
    /\ UNCHANGED <<m_reader_count, op, callState, readGuards>>

\* lines 66-79
TryLockCheck(t) ==
    /\ pc[t] = "try_lock_check"
    /\ m_read_count_mutex = t
    /\ m_read_count_mutex' = 0
    /\ IF m_reader_count > 0 \/ ~WriteSemaphoreAvailable
         THEN /\ Constructed(t, FALSE)
              /\ UNCHANGED <<m_write_semaphore, m_writer_waiting, writeGuard>>
         ELSE /\ m_write_semaphore' = FALSE
              /\ m_writer_waiting' = TRUE
              /\ Constructed(t, TRUE)
              /\ writeGuard' = [writeGuard EXCEPT ![t] = TRUE]
    /\ UNCHANGED lockableState
    /\ UNCHANGED <<object, guards, instanceState, timedState, notHeld>>
    /\ UNCHANGED <<m_reader_count, op, callState, readGuards>>

----
(* unlock(), called from ~unique_lock() of a Held guard *)

CallUnlock(t) ==
    /\ writeGuard[t]
    /\ object = "ReliableSharedMutex"
    /\ Call(t, "unlock", "unlock_take_mutex")
    /\ writeGuard' = [writeGuard EXCEPT ![t] = FALSE]
    /\ UNCHANGED lockableState
    /\ UNCHANGED <<object, guards, instanceState, timedState, notHeld>>
    /\ UNCHANGED <<lockState, callState, readGuards>>

\* line 84
UnlockTakeMutex(t) ==
    /\ pc[t] = "unlock_take_mutex"
    /\ MutexFree
    /\ m_read_count_mutex' = t
    /\ Goto(t, "unlock_clear_flag")
    /\ UNCHANGED lockableState
    /\ UNCHANGED <<object, guards, instanceState, timedState, notHeld>>
    /\ UNCHANGED <<m_write_semaphore, m_reader_count, m_writer_waiting,
                   op, m_owns, callState, clientState>>

\* lines 85-86
UnlockClearFlag(t) ==
    /\ pc[t] = "unlock_clear_flag"
    /\ m_read_count_mutex = t
    /\ m_writer_waiting' = FALSE
    /\ m_read_count_mutex' = 0
    /\ Goto(t, "unlock_give_semaphore")
    /\ UNCHANGED lockableState
    /\ UNCHANGED <<object, guards, instanceState, timedState, notHeld>>
    /\ UNCHANGED <<m_write_semaphore, m_reader_count, op, m_owns, callState, clientState>>

\* line 88: xSemaphoreGive(m_write_semaphore); unlock() returns
UnlockGiveSemaphore(t) ==
    /\ pc[t] = "unlock_give_semaphore"
    /\ m_write_semaphore' = TRUE
    /\ Goto(t, "done")
    /\ UNCHANGED lockableState
    /\ UNCHANGED <<object, guards, instanceState, timedState, notHeld>>
    /\ UNCHANGED <<m_read_count_mutex, m_reader_count, m_writer_waiting,
                   op, m_owns, callState, clientState>>

----
(* lock_shared(), called from shared_lock(Mutex&) *)

CallLockShared(t) ==
    /\ readGuards[t] = 0
    /\ ~writeGuard[t]
    /\ object = "ReliableSharedMutex"
    /\ Call(t, "lock_shared", "lock_shared_take_mutex")
    /\ UNCHANGED lockableState
    /\ UNCHANGED <<object, guards, instanceState, timedState, notHeld>>
    /\ UNCHANGED <<lockState, callState, clientState>>

\* lines 92 and 97-98: take the mutex (first time, or after the delay)
LockSharedTakeMutex(t) ==
    /\ pc[t] = "lock_shared_take_mutex"
    /\ MutexFree
    /\ m_read_count_mutex' = t
    /\ Goto(t, "lock_shared_check")
    /\ UNCHANGED lockableState
    /\ UNCHANGED <<object, guards, instanceState, timedState, notHeld>>
    /\ UNCHANGED <<m_write_semaphore, m_reader_count, m_writer_waiting,
                   op, m_owns, callState, clientState>>

\* Mutant of LockSharedCheck: the reader is counted (line 102) before the test
\* of m_writer_waiting, on every pass of the loop.
LockSharedCheck_CountsBeforeWait(t) ==
    /\ pc[t] = "lock_shared_check"
    /\ m_read_count_mutex = t
    /\ m_read_count_mutex' = 0
    /\ m_reader_count' = m_reader_count + 1
    /\ IF m_writer_waiting
         THEN /\ Goto(t, "lock_shared_take_mutex")
              /\ UNCHANGED <<m_owns, readGuards>>
         ELSE /\ Constructed(t, TRUE)
              /\ readGuards' = [readGuards EXCEPT ![t] = @ + 1]
    /\ UNCHANGED lockableState
    /\ UNCHANGED <<object, guards, instanceState, timedState, notHeld>>
    /\ UNCHANGED <<m_write_semaphore, m_writer_waiting, op, callState, writeGuard>>

\* lines 95-96 / 102-103; shared_lock sets m_owns = true (line 153)
LockSharedCheck(t) ==
    /\ pc[t] = "lock_shared_check"
    /\ m_read_count_mutex = t
    /\ m_read_count_mutex' = 0
    /\ IF m_writer_waiting
         THEN /\ Goto(t, "lock_shared_take_mutex")
              /\ UNCHANGED <<m_reader_count, m_owns, readGuards>>
         ELSE /\ m_reader_count' = m_reader_count + 1
              /\ Constructed(t, TRUE)
              /\ readGuards' = [readGuards EXCEPT ![t] = @ + 1]
    /\ UNCHANGED lockableState
    /\ UNCHANGED <<object, guards, instanceState, timedState, notHeld>>
    /\ UNCHANGED <<m_write_semaphore, m_writer_waiting, op, callState, writeGuard>>

----
(* try_lock_shared(), called from shared_lock(Mutex&, try_to_lock) *)

CallTryLockShared(t) ==
    /\ readGuards[t] < MaxNest
    /\ object = "ReliableSharedMutex"
    /\ Call(t, "try_lock_shared", "try_lock_shared_take_mutex")
    /\ tries' = [tries EXCEPT ![t] = 0]
    /\ writerSeen' = [writerSeen EXCEPT ![t] = WriterWaitingOrActive]
    /\ UNCHANGED lockableState
    /\ UNCHANGED <<object, guards, instanceState, timedState, notHeld>>
    /\ UNCHANGED <<lockState, clientState>>

\* Mutant of TryLockSharedTakeMutex: the retry loop has no max_wait window and
\* tries again for as long as the mutex is held by another task.
TryLockSharedTakeMutex_NoWindow(t) ==
    /\ pc[t] = "try_lock_shared_take_mutex"
    /\ IF MutexFree
         THEN /\ m_read_count_mutex' = t
              /\ Goto(t, "try_lock_shared_check")
         ELSE /\ UNCHANGED <<m_read_count_mutex, pc>>
    /\ UNCHANGED lockableState
    /\ UNCHANGED <<object, guards, instanceState, timedState, notHeld>>
    /\ UNCHANGED <<m_write_semaphore, m_reader_count, m_writer_waiting,
                   op, m_owns, tries, writerSeen, clientState>>

\* Mutant of TryLockSharedTakeMutex: when the window is over the reader is
\* counted without the mutex instead of being refused.
TryLockSharedTakeMutex_CountsAnyway(t) ==
    /\ pc[t] = "try_lock_shared_take_mutex"
    /\ \/ /\ tries' = [tries EXCEPT ![t] = 0]
          /\ m_reader_count' = m_reader_count + 1
          /\ readGuards' = [readGuards EXCEPT ![t] = @ + 1]
          /\ Constructed(t, TRUE)
          /\ UNCHANGED m_read_count_mutex
       \/ /\ MutexFree
          /\ m_read_count_mutex' = t
          /\ Goto(t, "try_lock_shared_check")
          /\ UNCHANGED <<m_owns, tries, m_reader_count, readGuards>>
       \/ /\ ~MutexFree
          /\ tries[t] + 1 < MaxTries
          /\ tries' = [tries EXCEPT ![t] = @ + 1]
          /\ UNCHANGED <<m_read_count_mutex, pc, m_owns, m_reader_count, readGuards>>
    /\ UNCHANGED lockableState
    /\ UNCHANGED <<object, guards, instanceState, timedState, notHeld>>
    /\ UNCHANGED <<m_write_semaphore, m_writer_waiting, op, writerSeen, writeGuard>>

\* lines 112-113 and 126-130: the loop test and one attempt of the retry loop.
\* The loop test reads the tick count, which advances independently of what
\* this task does: the window max_wait can be over at any test, the first
\* included (the task was off the processor since line 110, or
\* pdMS_TO_TICKS(50) is 0 ticks), whatever the state of the mutex, and
\* try_lock_shared() then returns false at line 130.  Otherwise the timed take
\* succeeds when the mutex is free, or times out while another task holds it
\* and the loop test is made again; MaxTries bounds the attempts that fit in
\* the window.
TryLockSharedTakeMutex(t) ==
    /\ pc[t] = "try_lock_shared_take_mutex"
    /\ \/ /\ tries' = [tries EXCEPT ![t] = 0]
          /\ Constructed(t, FALSE)
          /\ UNCHANGED m_read_count_mutex
       \/ /\ MutexFree
          /\ m_read_count_mutex' = t
          /\ Goto(t, "try_lock_shared_check")
          /\ UNCHANGED <<m_owns, tries>>
       \/ /\ ~MutexFree
          /\ tries[t] + 1 < MaxTries
          /\ tries' = [tries EXCEPT ![t] = @ + 1]
          /\ UNCHANGED <<m_read_count_mutex, pc, m_owns>>
    /\ UNCHANGED lockableState
    /\ UNCHANGED <<object, guards, instanceState, timedState, notHeld>>
    /\ UNCHANGED <<m_write_semaphore, m_reader_count, m_writer_waiting,
                   op, writerSeen, clientState>>
\* Mutant of TryLockSharedCheck: the test of m_writer_waiting (line 115) is
\* left out.
TryLockSharedCheck_IgnoresFlag(t) ==
    /\ pc[t] = "try_lock_shared_check"
    /\ m_read_count_mutex = t
    /\ m_read_count_mutex' = 0
    /\ tries' = [tries EXCEPT ![t] = 0]
    /\ m_reader_count' = m_reader_count + 1
    /\ Constructed(t, TRUE)
    /\ readGuards' = [readGuards EXCEPT ![t] = @ + 1]
    /\ UNCHANGED lockableState
    /\ UNCHANGED <<object, guards, instanceState, timedState, notHeld>>
    /\ UNCHANGED <<m_write_semaphore, m_writer_waiting, op, writerSeen, writeGuard>>

\* lines 115-123
TryLockSharedCheck(t) ==
    /\ pc[t] = "try_lock_shared_check"
    /\ m_read_count_mutex = t
    /\ m_read_count_mutex' = 0
    /\ tries' = [tries EXCEPT ![t] = 0]
    /\ IF m_writer_waiting
         THEN /\ Constructed(t, FALSE)
              /\ UNCHANGED <<m_reader_count, readGuards>>
         ELSE /\ m_reader_count' = m_reader_count + 1
              /\ Constructed(t, TRUE)
              /\ readGuards' = [readGuards EXCEPT ![t] = @ + 1]
    /\ UNCHANGED lockableState
    /\ UNCHANGED <<object, guards, instanceState, timedState, notHeld>>
    /\ UNCHANGED <<m_write_semaphore, m_writer_waiting, op, writerSeen, writeGuard>>

----
(* unlock_shared(), called from ~shared_lock() of a Held guard *)

CallUnlockShared(t) ==
    /\ readGuards[t] > 0
    /\ object = "ReliableSharedMutex"
    /\ Call(t, "unlock_shared", "unlock_shared_take_mutex")
    /\ readGuards' = [readGuards EXCEPT ![t] = @ - 1]
    /\ UNCHANGED lockableState
    /\ UNCHANGED <<object, guards, instanceState, timedState, notHeld>>
    /\ UNCHANGED <<lockState, callState, writeGuard>>
\* Mutant of UnlockSharedTakeMutex: unlock_shared() goes on to the decrement
\* without waiting for m_read_count_mutex to be free.
UnlockSharedTakeMutex_NoWait(t) ==
    /\ pc[t] = "unlock_shared_take_mutex"
    /\ m_read_count_mutex' = t
    /\ Goto(t, "unlock_shared_decrement")
    /\ UNCHANGED lockableState
    /\ UNCHANGED <<object, guards, instanceState, timedState, notHeld>>
    /\ UNCHANGED <<m_write_semaphore, m_reader_count, m_writer_waiting,
                   op, m_owns, callState, clientState>>

\* line 134
UnlockSharedTakeMutex(t) ==
    /\ pc[t] = "unlock_shared_take_mutex"
    /\ MutexFree
    /\ m_read_count_mutex' = t
    /\ Goto(t, "unlock_shared_decrement")
    /\ UNCHANGED lockableState
    /\ UNCHANGED <<object, guards, instanceState, timedState, notHeld>>
    /\ UNCHANGED <<m_write_semaphore, m_reader_count, m_writer_waiting,
                   op, m_owns, callState, clientState>>

\* lines 135-136; unlock_shared() returns
UnlockSharedDecrement(t) ==
    /\ pc[t] = "unlock_shared_decrement"
    /\ m_read_count_mutex = t
    /\ m_reader_count' = m_reader_count - 1
    /\ m_read_count_mutex' = 0
    /\ Goto(t, "done")
    /\ UNCHANGED lockableState
    /\ UNCHANGED <<object, guards, instanceState, timedState, notHeld>>
    /\ UNCHANGED <<m_write_semaphore, m_writer_waiting, op, m_owns, callState, clientState>>

----
\* The operation has returned to its caller, which goes on.
Return(t) ==
    /\ pc[t] = "done"
    /\ Finish(t)
    /\ writerSeen' = [writerSeen EXCEPT ![t] = FALSE]
    /\ notHeld' = [notHeld EXCEPT ![t] = FALSE]
    /\ timeout_duration' = [timeout_duration EXCEPT ![t] = 0]
    /\ actual_timeout' = [actual_timeout EXCEPT ![t] = 0]
    /\ UNCHANGED lockableState
    /\ UNCHANGED <<object, guards, instanceState>>
    /\ UNCHANGED <<lockState, tries, clientState>>

Step(t) ==
    \/ CallLock(t) \/ LockTakeMutex(t) \/ LockSetFlag(t)
    \/ LockDrainRetake(t) \/ LockDrainCheck(t) \/ LockTakeSemaphore(t)
    \/ CallTryLock(t) \/ TryLockTakeMutex(t) \/ TryLockCheck(t)
    \/ CallUnlock(t) \/ UnlockTakeMutex(t) \/ UnlockClearFlag(t)
    \/ UnlockGiveSemaphore(t)
    \/ CallLockShared(t) \/ LockSharedTakeMutex(t) \/ LockSharedCheck(t)
    \/ CallTryLockShared(t) \/ TryLockSharedTakeMutex(t) \/ TryLockSharedCheck(t)
    \/ CallUnlockShared(t) \/ UnlockSharedTakeMutex(t) \/ UnlockSharedDecrement(t)
    \/ Return(t)

Next == \E t \in Threads : Step(t)

\* The tasks use a ReliableSharedMutex through its guards.
Spec == Init /\ [][Next]_vars

----
(* LockableObject: accessors over m_mutex (std::shared_timed_mutex) *)

\* A writer has entered m_mutex and waits for it: some task is inside an
\* exclusive acquisition (try_lock_for of LockableObject, lock() of
\* ScopedLockAccess).
WriterEntered ==
    \E t \in Threads :
        pc[t] \in {"write_access_wait", "reset_write_access_wait",
                   "timed_write_access_wait", "scoped_write_access_lock",
                   "reset_db_lock"}

\* The values m_mutex.try_lock_shared_for(d) of std::shared_timed_mutex can
\* return (line 59, read_lock).  It fails while m_mutex is owned exclusively
\* for the whole of d.  While a writer waits for the readers to leave, the
\* library built on condition variables keeps new readers out and the call
\* fails, the library built on pthread_rwlock_t lets them in; src/ does not
\* say which one the build has, so both values are possible.
try_lock_shared_for_result ==
    IF m_mutex.exclusive # 0 THEN {FALSE}
    ELSE IF WriterEntered THEN {TRUE, FALSE}
    ELSE {TRUE}

\* The values m_mutex.try_lock_shared() of std::shared_mutex can return to
\* task t (ScopedLockAccess.hpp line 58).  It fails while m_mutex is owned
\* exclusively.  It may fail although shared ownership could be had when
\* another task is at the mutex: a writer has entered and waits, or another
\* reader owns it and the library's internal mutex is busy with that reader's
\* call.  With no other task at the mutex it succeeds.
std_try_lock_shared_result(t) ==
    IF m_mutex.exclusive # 0 THEN {FALSE}
    ELSE IF WriterEntered \/ m_mutex.shared > readGuards[t] THEN {TRUE, FALSE}
    ELSE {TRUE}

\* m_mutex can be locked in exclusive mode: no task owns it in any mode.
ExclusiveLockable == m_mutex.exclusive = 0 /\ m_mutex.shared = 0

\* lines 89-92: getReadAccess() builds ReadAccess(m_mutex, m_protected,
\* minBlockTime); the test "Locking" also calls it from the task that holds
\* the write accessor.
CallGetReadAccess(t) ==
    /\ readGuards[t] < MaxNest
    /\ object = "LockableObject"
    /\ Call(t, "getReadAccess", "read_access_wait")
    /\ UNCHANGED <<object, guards, instanceState, timedState, notHeld>>
    /\ UNCHANGED <<lockState, callState, clientState, lockableState>>

\* Mutant of ReadAccessAcquire: shared ownership is granted although m_mutex
\* is owned exclusively.
ReadAccessAcquire_IgnoresWriter(t) ==
    /\ pc[t] = "read_access_wait"
    /\ UNCHANGED m_protected
    /\ m_mutex' = [m_mutex EXCEPT !.shared = @ + 1]
    /\ Constructed(t, TRUE)
    /\ readGuards' = [readGuards EXCEPT ![t] = @ + 1]
    /\ UNCHANGED <<object, guards, instanceState, timedState, notHeld>>
    /\ UNCHANGED <<lockState, op, callState, writeGuard>>

\* line 59: std::shared_lock(m, 10ms) calls m.try_lock_shared_for(10ms), which
\* obtains shared ownership
ReadAccessAcquire(t) ==
    /\ pc[t] = "read_access_wait"
    /\ TRUE \in try_lock_shared_for_result
    /\ UNCHANGED m_protected
    /\ m_mutex' = [m_mutex EXCEPT !.shared = @ + 1]
    /\ Constructed(t, TRUE)
    /\ readGuards' = [readGuards EXCEPT ![t] = @ + 1]
    /\ UNCHANGED <<object, guards, instanceState, timedState, notHeld>>
    /\ UNCHANGED <<lockState, op, callState, writeGuard>>

\* line 59: ... or returns false when the 10 ms are over and m_mutex is still
\* owned exclusively, or a writer still waits for it; operator bool (line 73)
\* then reports false.
ReadAccessTimeout(t) ==
    /\ pc[t] = "read_access_wait"
    /\ FALSE \in try_lock_shared_for_result
    /\ Constructed(t, FALSE)
    /\ UNCHANGED <<object, guards, instanceState, timedState, notHeld>>
    /\ UNCHANGED <<lockState, op, callState, clientState, lockableState>>

\* lines 104-107: getWriteAccess() builds WriteAccess(m_mutex, m_protected,
\* maxBlockTime), called by a task that holds no accessor.
CallGetWriteAccess(t) ==
    /\ readGuards[t] = 0
    /\ ~writeGuard[t]
    /\ object = "LockableObject"
    /\ Call(t, "getWriteAccess", "write_access_wait")
    /\ UNCHANGED <<object, guards, instanceState, timedState, notHeld>>
    /\ UNCHANGED <<lockState, callState, clientState, lockableState>>

\* line 59: std::unique_lock(m, maxBlockTime) calls m.try_lock_for(maxBlockTime),
\* which obtains exclusive ownership
WriteAccessAcquire(t) ==
    /\ pc[t] = "write_access_wait"
    /\ ExclusiveLockable
    /\ UNCHANGED m_protected
    /\ m_mutex' = [m_mutex EXCEPT !.exclusive = t]
    /\ Constructed(t, TRUE)
    /\ writeGuard' = [writeGuard EXCEPT ![t] = TRUE]
    /\ UNCHANGED <<object, guards, instanceState, timedState, notHeld>>
    /\ UNCHANGED <<lockState, op, callState, readGuards>>

\* lines 23 and 59: maxBlockTime is std::chrono::milliseconds::max().  The
\* deadline try_lock_for computes from it, now() + maxBlockTime in the clock's
\* nanoseconds, overflows the signed 64-bit representation (undefined
\* behaviour): the build either keeps waiting, which is this action not being
\* taken, or sees a deadline that has passed and returns false while m_mutex
\* is owned, which is this action.
WriteAccessTimeout(t) ==
    /\ pc[t] = "write_access_wait"
    /\ ~ExclusiveLockable
    /\ Constructed(t, FALSE)
    /\ UNCHANGED <<object, guards, instanceState, timedState, notHeld>>
    /\ UNCHANGED <<lockState, op, callState, clientState, lockableState>>

\* ~ScopedAccess of a holding ReadAccess: ~std::shared_lock calls
\* m_mutex.unlock_shared() (member m_lock, line 80)
ReleaseReadAccess(t) ==
    /\ readGuards[t] > 0
    /\ object \in AccessorObjects
    /\ Call(t, "releaseReadAccess", "done")
    /\ UNCHANGED m_protected
    /\ m_mutex' = [m_mutex EXCEPT !.shared = @ - 1]
    /\ readGuards' = [readGuards EXCEPT ![t] = @ - 1]
    /\ UNCHANGED <<object, guards, instanceState, timedState, notHeld>>
    /\ UNCHANGED <<lockState, callState, writeGuard>>

\* ~ScopedAccess of a holding WriteAccess: ~std::unique_lock calls
\* m_mutex.unlock() (member m_lock, line 80)
ReleaseWriteAccess(t) ==
    /\ writeGuard[t]
    /\ object \in AccessorObjects
    /\ Call(t, "releaseWriteAccess", "done")
    /\ UNCHANGED m_protected
    /\ m_mutex' = [m_mutex EXCEPT !.exclusive = 0]
    /\ writeGuard' = [writeGuard EXCEPT ![t] = FALSE]
    /\ UNCHANGED <<object, guards, instanceState, timedState, notHeld>>
    /\ UNCHANGED <<lockState, callState, readGuards>>

\* operator-> of a holding WriteAccess (line 65): the task stores a value in
\* the protected object.
WriteThroughAccess(t) ==
    /\ object \in AccessorObjects
    /\ pc[t] = "idle"
    /\ writeGuard[t]
    /\ \E v \in Values : m_protected' = v
    /\ UNCHANGED m_mutex
    /\ UNCHANGED <<object, guards, instanceState, timedState, notHeld>>
    /\ UNCHANGED <<lockState, taskState>>

\* lines 119-121: reset() calls getWriteAccess(); the caller holds no accessor.
CallReset(t) ==
    /\ readGuards[t] = 0
    /\ ~writeGuard[t]
    /\ object = "LockableObject"
    /\ Call(t, "reset", "reset_write_access_wait")
    /\ UNCHANGED <<object, guards, instanceState, timedState, notHeld>>
    /\ UNCHANGED <<lockState, callState, clientState, lockableState>>

\* line 121: the WriteAccess 'lock' is constructed holding (try_lock_for
\* obtained exclusive ownership) and operator bool is true
ResetAcquire(t) ==
    /\ pc[t] = "reset_write_access_wait"
    /\ ExclusiveLockable
    /\ m_mutex' = [m_mutex EXCEPT !.exclusive = t]
    /\ Goto(t, "reset_assign")
    /\ m_owns' = [m_owns EXCEPT ![t] = TRUE]
    /\ writeGuard' = [writeGuard EXCEPT ![t] = TRUE]
    /\ UNCHANGED m_protected
    /\ UNCHANGED <<object, guards, instanceState, timedState, notHeld>>
    /\ UNCHANGED <<lockState, op, callState, readGuards>>

\* Mutant of ResetTimeout: reset() assigns without testing 'lock'.
ResetTimeout_AssignsAnyway(t) ==
    /\ pc[t] = "reset_write_access_wait"
    /\ ~ExclusiveLockable
    /\ m_protected' = Default
    /\ Constructed(t, FALSE)
    /\ UNCHANGED m_mutex
    /\ UNCHANGED <<object, guards, instanceState, timedState, notHeld>>
    /\ UNCHANGED <<lockState, op, callState, clientState>>

\* line 121: 'lock' is constructed not holding (the deadline computed from
\* maxBlockTime has passed, see WriteAccessTimeout); operator bool is false,
\* the body of the if is skipped and reset() returns (line 125).
ResetTimeout(t) ==
    /\ pc[t] = "reset_write_access_wait"
    /\ ~ExclusiveLockable
    /\ Constructed(t, FALSE)
    /\ UNCHANGED <<object, guards, instanceState, timedState, notHeld>>
    /\ UNCHANGED <<lockState, op, callState, clientState, lockableState>>

\* line 123: m_protected = {}
ResetAssign(t) ==
    /\ pc[t] = "reset_assign"
    /\ m_protected' = Default
    /\ Goto(t, "reset_release")
    /\ UNCHANGED m_mutex
    /\ UNCHANGED <<object, guards, instanceState, timedState, notHeld>>
    /\ UNCHANGED <<lockState, op, m_owns, callState, clientState>>

\* line 124: 'lock' goes out of scope, ~std::unique_lock unlocks m_mutex;
\* reset() returns.  m_owns[t] keeps what operator bool said at line 121.
ResetRelease(t) ==
    /\ pc[t] = "reset_release"
    /\ m_mutex' = [m_mutex EXCEPT !.exclusive = 0]
    /\ writeGuard' = [writeGuard EXCEPT ![t] = FALSE]
    /\ Goto(t, "done")
    /\ UNCHANGED m_protected
    /\ UNCHANGED <<object, guards, instanceState, timedState, notHeld>>
    /\ UNCHANGED <<lockState, op, m_owns, callState, readGuards>>

LockableStep(t) ==
    \/ CallGetReadAccess(t) \/ ReadAccessAcquire(t) \/ ReadAccessTimeout(t)
    \/ CallGetWriteAccess(t) \/ WriteAccessAcquire(t) \/ WriteAccessTimeout(t)
    \/ ReleaseReadAccess(t) \/ ReleaseWriteAccess(t)
    \/ WriteThroughAccess(t)
    \/ CallReset(t) \/ ResetAcquire(t) \/ ResetTimeout(t)
    \/ ResetAssign(t) \/ ResetRelease(t)
    \/ Return(t)

LockableNext == \E t \in Threads : LockableStep(t)

\* The tasks use a LockableObject.
LockableSpec == LockableInit /\ [][LockableNext]_vars

----
(* LockableObject: accessors with a timeout given by the caller *)

\* lines 99 and 114: timeout_duration < minBlockTime ? minBlockTime
\* : timeout_duration
EffectiveTimeout(timeout) ==
    IF timeout < minBlockTime THEN minBlockTime ELSE timeout

\* Task t enters the timed accessor call o with the timeout d.
CallTimed(t, o, l, d, actual) ==
    /\ object = "LockableObject"
    /\ Call(t, o, l)
    /\ timeout_duration' = [timeout_duration EXCEPT ![t] = d]
    /\ actual_timeout' = [actual_timeout EXCEPT ![t] = actual]
    /\ UNCHANGED <<lockState, callState, clientState, lockableState>>
    /\ UNCHANGED <<object, guards, instanceState, notHeld>>

\* Mutant of CallGetReadAccessFor: the timeout is passed on as given.
CallGetReadAccessFor_NoFloor(t, d) ==
    /\ readGuards[t] < MaxNest
    /\ CallTimed(t, "getReadAccess(timeout)", "timed_read_access_wait", d, d)

\* lines 95-101: getReadAccess(timeout_duration) builds ReadAccess(m_mutex,
\* m_protected, actual_timeout)
CallGetReadAccessFor(t, d) ==
    /\ readGuards[t] < MaxNest
    /\ CallTimed(t, "getReadAccess(timeout)", "timed_read_access_wait", d,
                 EffectiveTimeout(d))

\* line 59: m.try_lock_shared_for(actual_timeout) obtains shared ownership
TimedReadAccessAcquire(t) ==
    /\ pc[t] = "timed_read_access_wait"
    /\ TRUE \in try_lock_shared_for_result
    /\ UNCHANGED m_protected
    /\ m_mutex' = [m_mutex EXCEPT !.shared = @ + 1]
    /\ Constructed(t, TRUE)
    /\ readGuards' = [readGuards EXCEPT ![t] = @ + 1]
    /\ UNCHANGED <<object, guards, instanceState, timedState, notHeld>>
    /\ UNCHANGED <<lockState, op, callState, writeGuard>>

\* line 59: ... or returns false when actual_timeout is over and m_mutex is
\* still owned exclusively, or a writer still waits for it
TimedReadAccessTimeout(t) ==
    /\ pc[t] = "timed_read_access_wait"
    /\ FALSE \in try_lock_shared_for_result
    /\ Constructed(t, FALSE)
    /\ UNCHANGED <<object, guards, instanceState, timedState, notHeld>>
    /\ UNCHANGED <<lockState, op, callState, clientState, lockableState>>

\* lines 110-116: getWriteAccess(timeout_duration) builds WriteAccess(m_mutex,
\* m_protected, actual_timeout), called by a task that holds no accessor
CallGetWriteAccessFor(t, d) ==
    /\ readGuards[t] = 0
    /\ ~writeGuard[t]
    /\ CallTimed(t, "getWriteAccess(timeout)", "timed_write_access_wait", d,
                 EffectiveTimeout(d))

\* line 59: m.try_lock_for(actual_timeout) obtains exclusive ownership
TimedWriteAccessAcquire(t) ==
    /\ pc[t] = "timed_write_access_wait"
    /\ ExclusiveLockable
    /\ UNCHANGED m_protected
    /\ m_mutex' = [m_mutex EXCEPT !.exclusive = t]
    /\ Constructed(t, TRUE)
    /\ writeGuard' = [writeGuard EXCEPT ![t] = TRUE]
    /\ UNCHANGED <<object, guards, instanceState, timedState, notHeld>>
    /\ UNCHANGED <<lockState, op, callState, readGuards>>

\* line 59: ... or returns false when actual_timeout is over and m_mutex is
\* still owned
TimedWriteAccessTimeout(t) ==
    /\ pc[t] = "timed_write_access_wait"
    /\ ~ExclusiveLockable
    /\ Constructed(t, FALSE)
    /\ UNCHANGED <<object, guards, instanceState, timedState, notHeld>>
    /\ UNCHANGED <<lockState, op, callState, clientState, lockableState>>

TimedStep(t) ==
    \/ \E d \in Timeouts : CallGetReadAccessFor(t, d)
    \/ TimedReadAccessAcquire(t) \/ TimedReadAccessTimeout(t)
    \/ \E d \in Timeouts : CallGetWriteAccessFor(t, d)
    \/ TimedWriteAccessAcquire(t) \/ TimedWriteAccessTimeout(t)
    \/ ReleaseReadAccess(t) \/ ReleaseWriteAccess(t)
    \/ Return(t)

TimedNext == \E t \in Threads : TimedStep(t)

\* The tasks use a LockableObject through getReadAccess(timeout) and
\* getWriteAccess(timeout).
TimedSpec == LockableInit /\ [][TimedNext]_vars

----
(* LockableObject: the instance registered for the whole process *)

\* Mutant of SetStaticInstance: an instance already registered is kept.
SetStaticInstance_KeepsFirst(t, ptr) ==
    /\ object = "LockableObject"
    /\ Call(t, "setStaticInstance", "done")
    /\ sm_instance' = IF sm_instance = Null THEN ptr ELSE sm_instance
    /\ registered' = ptr
    /\ UNCHANGED <<instance, aborted, raced>>
    /\ UNCHANGED <<lockState, callState, clientState, lockableState>>
    /\ UNCHANGED <<object, guards, timedState, notHeld>>

\* lines 32-35: setStaticInstance(ptr) stores ptr in sm_instance
SetStaticInstance(t, ptr) ==
    /\ object = "LockableObject"
    /\ Call(t, "setStaticInstance", "done")
    /\ sm_instance' = ptr
    /\ registered' = ptr
    /\ UNCHANGED <<instance, aborted, raced>>
    /\ UNCHANGED <<lockState, callState, clientState, lockableState>>
    /\ UNCHANGED <<object, guards, timedState, notHeld>>

\* lines 37-39: getInstance() evaluates assert(sm_instance): a null
\* sm_instance ends the process here, any other lets the call go on to
\* line 40.
GetInstance(t) ==
    /\ object = "LockableObject"
    /\ pc[t] = "idle"
    /\ op' = [op EXCEPT ![t] = "getInstance"]
    /\ \/ /\ sm_instance = Null
          /\ aborted' = TRUE
          /\ Goto(t, "assert")
       \/ /\ sm_instance # Null
          /\ Goto(t, "get_instance_return")
          /\ UNCHANGED aborted
    /\ UNCHANGED <<sm_instance, registered, instance, raced, m_owns>>
    /\ UNCHANGED <<lockState, callState, clientState, lockableState>>
    /\ UNCHANGED <<object, guards, timedState, notHeld>>

\* line 40: return *sm_instance reads sm_instance a second time, with no
\* synchronisation against a setStaticInstance() made by another task since
\* line 39; the reference returned is to whatever it points to now.
GetInstanceReturn(t) ==
    /\ pc[t] = "get_instance_return"
    /\ instance' = [instance EXCEPT ![t] = sm_instance]
    /\ Goto(t, "done")
    /\ UNCHANGED <<sm_instance, registered, aborted, raced, op, m_owns>>
    /\ UNCHANGED <<lockState, callState, clientState, lockableState>>
    /\ UNCHANGED <<object, guards, timedState, notHeld>>

InstanceStep(t) ==
    \/ \E ptr \in {Null} \cup Instances : SetStaticInstance(t, ptr)
    \/ GetInstance(t) \/ GetInstanceReturn(t)
    \/ Return(t)

\* Nothing runs once an assertion has ended the process.
InstanceNext == ~aborted /\ \E t \in Threads : InstanceStep(t)

\* The tasks register LockableObject instances and ask for the registered
\* instance.
InstanceSpec == LockableInit /\ [][InstanceNext]_vars

----
(* ScopedLockAccess (include/ScopedLockAccess.hpp): accessors over m_mutex, a
   std::shared_mutex, and resetDb() *)

\* lines 84-87 and 58: getReadAccess() builds ReadAccess(m_mutex, m_db, false),
\* whose m_lock is read_lock(m, std::try_to_lock): try_lock_shared() obtains
\* shared ownership or returns false at once.
ScopedGetReadAccess(t) ==
    /\ readGuards[t] < MaxNest
    /\ object = "ScopedLockAccess"
    /\ pc[t] = "idle"
    /\ pc' = [pc EXCEPT ![t] = "done"]
    /\ op' = [op EXCEPT ![t] = "ScopedLockAccess::getReadAccess"]
    /\ \E r \in std_try_lock_shared_result(t) :
         /\ m_owns' = [m_owns EXCEPT ![t] = r]
         /\ IF r
              THEN /\ m_mutex' = [m_mutex EXCEPT !.shared = @ + 1]
                   /\ readGuards' = [readGuards EXCEPT ![t] = @ + 1]
              ELSE UNCHANGED <<m_mutex, readGuards>>
    /\ UNCHANGED m_protected
    /\ UNCHANGED <<object, guards, instanceState, timedState, notHeld>>
    /\ UNCHANGED <<lockState, callState, writeGuard>>

\* lines 88-91: getWriteAccess() builds WriteAccess(m_mutex, m_db, true),
\* called by a task that holds no accessor.
CallScopedGetWriteAccess(t) ==
    /\ readGuards[t] = 0
    /\ ~writeGuard[t]
    /\ object = "ScopedLockAccess"
    /\ Call(t, "ScopedLockAccess::getWriteAccess", "scoped_write_access_lock")
    /\ UNCHANGED <<object, guards, instanceState, timedState, notHeld>>
    /\ UNCHANGED <<lockState, callState, clientState, lockableState>>

\* line 54: m_lock = write_lock(m): m_mutex.lock() waits until it obtains
\* exclusive ownership
ScopedWriteAccessLock(t) ==
    /\ pc[t] = "scoped_write_access_lock"
    /\ ExclusiveLockable
    /\ m_mutex' = [m_mutex EXCEPT !.exclusive = t]
    /\ Constructed(t, TRUE)
    /\ writeGuard' = [writeGuard EXCEPT ![t] = TRUE]
    /\ UNCHANGED m_protected
    /\ UNCHANGED <<object, guards, instanceState, timedState, notHeld>>
    /\ UNCHANGED <<lockState, op, callState, readGuards>>

\* lines 92-94: resetDb() calls lock_for_writing(); the caller holds no
\* accessor.
CallResetDb(t) ==
    /\ readGuards[t] = 0
    /\ ~writeGuard[t]
    /\ object = "ScopedLockAccess"
    /\ Call(t, "resetDb", "reset_db_lock")
    /\ UNCHANGED <<object, guards, instanceState, timedState, notHeld>>
    /\ UNCHANGED <<lockState, callState, clientState, lockableState>>

\* lines 94 and 42: write_lock(m_mutex): m_mutex.lock() waits until it obtains
\* exclusive ownership
ResetDbLock(t) ==
    /\ pc[t] = "reset_db_lock"
    /\ ExclusiveLockable
    /\ m_mutex' = [m_mutex EXCEPT !.exclusive = t]
    /\ Goto(t, "reset_db_assign")
    /\ m_owns' = [m_owns EXCEPT ![t] = TRUE]
    /\ writeGuard' = [writeGuard EXCEPT ![t] = TRUE]
    /\ UNCHANGED m_protected
    /\ UNCHANGED <<object, guards, instanceState, timedState, notHeld>>
    /\ UNCHANGED <<lockState, op, callState, readGuards>>

\* line 95: m_db = {}
ResetDbAssign(t) ==
    /\ pc[t] = "reset_db_assign"
    /\ m_protected' = Default
    /\ Goto(t, "reset_db_unlock")
    /\ UNCHANGED m_mutex
    /\ UNCHANGED <<object, guards, instanceState, timedState, notHeld>>
    /\ UNCHANGED <<lockState, op, m_owns, callState, clientState>>

\* line 96: 'lock' goes out of scope and unlocks m_mutex; resetDb() returns
ResetDbUnlock(t) ==
    /\ pc[t] = "reset_db_unlock"
    /\ m_mutex' = [m_mutex EXCEPT !.exclusive = 0]
    /\ writeGuard' = [writeGuard EXCEPT ![t] = FALSE]
    /\ Goto(t, "done")
    /\ UNCHANGED m_protected
    /\ UNCHANGED <<object, guards, instanceState, timedState, notHeld>>
    /\ UNCHANGED <<lockState, op, m_owns, callState, readGuards>>

ScopedStep(t) ==
    \/ ScopedGetReadAccess(t)
    \/ CallScopedGetWriteAccess(t) \/ ScopedWriteAccessLock(t)
    \/ ReleaseReadAccess(t) \/ ReleaseWriteAccess(t)
    \/ WriteThroughAccess(t)
    \/ CallResetDb(t) \/ ResetDbLock(t) \/ ResetDbAssign(t) \/ ResetDbUnlock(t)
    \/ Return(t)

\* lines 27-30: ScopedLockAccess::setStaticInstance(ptr) stores ptr in
\* sm_instance
ScopedSetStaticInstance(t, ptr) ==
    /\ object = "ScopedLockAccess"
    /\ Call(t, "ScopedLockAccess::setStaticInstance", "done")
    /\ sm_instance' = ptr
    /\ registered' = ptr
    /\ UNCHANGED <<instance, aborted, raced>>
    /\ UNCHANGED <<lockState, callState, clientState, lockableState>>
    /\ UNCHANGED <<object, guards, timedState, notHeld>>

\* lines 31-33: getManager() evaluates assert(sm_instance): a null
\* sm_instance ends the process here, any other lets the call go on to
\* line 34.
GetManager(t) ==
    /\ object = "ScopedLockAccess"
    /\ pc[t] = "idle"
    /\ op' = [op EXCEPT ![t] = "getManager"]
    /\ \/ /\ sm_instance = Null
          /\ aborted' = TRUE
          /\ Goto(t, "assert")
       \/ /\ sm_instance # Null
          /\ Goto(t, "get_manager_return")
          /\ UNCHANGED aborted
    /\ UNCHANGED <<sm_instance, registered, instance, raced, m_owns>>
    /\ UNCHANGED <<lockState, callState, clientState, lockableState>>
    /\ UNCHANGED <<object, guards, timedState, notHeld>>

\* line 34: return *sm_instance reads sm_instance a second time.
GetManagerReturn(t) ==
    /\ pc[t] = "get_manager_return"
    /\ instance' = [instance EXCEPT ![t] = sm_instance]
    /\ Goto(t, "done")
    /\ UNCHANGED <<sm_instance, registered, aborted, raced, op, m_owns>>
    /\ UNCHANGED <<lockState, callState, clientState, lockableState>>
    /\ UNCHANGED <<object, guards, timedState, notHeld>>

\* Nothing runs once an assertion has ended the process.
ScopedNext ==
    /\ ~aborted
    /\ \E t \in Threads :
        \/ ScopedStep(t)
        \/ \E ptr \in {Null} \cup Instances : ScopedSetStaticInstance(t, ptr)
        \/ GetManager(t) \/ GetManagerReturn(t)

\* The tasks use a ScopedLockAccess.
ScopedSpec == InitFor("ScopedLockAccess") /\ [][ScopedNext]_vars

----
(* shared_lock / unique_lock guard objects of one task.  The task is the only
   user of the ReliableSharedMutex, so every call runs from its first to its
   last statement without another task in between; a blocking call is made
   only when it can return. *)

\* lock_shared() (lines 91-104) returns: no writer flag, the reader is counted.
lock_shared ==
    /\ ~m_writer_waiting
    /\ m_reader_count' = m_reader_count + 1
    /\ UNCHANGED <<m_write_semaphore, m_read_count_mutex, m_writer_waiting>>

\* The values try_lock_shared() (lines 106-131) can return.  The mutex is
\* free at every attempt, so inside the window max_wait the flag decides
\* (lines 115-123); when the tick count has reached start_time + max_wait at a
\* loop test of line 112 the call returns false at line 130 whatever the flag.
try_lock_shared_result == IF m_writer_waiting THEN {FALSE} ELSE {TRUE, FALSE}

\* try_lock_shared() returns r
try_lock_shared(r) ==
    /\ r \in try_lock_shared_result
    /\ m_reader_count' = IF r THEN m_reader_count + 1 ELSE m_reader_count
    /\ UNCHANGED <<m_write_semaphore, m_read_count_mutex, m_writer_waiting>>

\* unlock_shared() (lines 133-137)
unlock_shared ==
    /\ m_reader_count' = m_reader_count - 1
    /\ UNCHANGED <<m_write_semaphore, m_read_count_mutex, m_writer_waiting>>

\* lock() (lines 42-57) returns: the drain test m_reader_count > 0 (line 48)
\* is false, the write semaphore is available.
lock ==
    /\ ~(m_reader_count > 0)
    /\ WriteSemaphoreAvailable
    /\ m_writer_waiting' = TRUE
    /\ m_write_semaphore' = FALSE
    /\ UNCHANGED <<m_read_count_mutex, m_reader_count>>

\* The value try_lock() (lines 59-80) returns: the test m_reader_count > 0
\* (line 66) is false and the write semaphore is taken (line 72).
try_lock_result == ~(m_reader_count > 0) /\ WriteSemaphoreAvailable

\* try_lock()
try_lock ==
    /\ IF try_lock_result
         THEN m_writer_waiting' = TRUE /\ m_write_semaphore' = FALSE
         ELSE UNCHANGED <<m_writer_waiting, m_write_semaphore>>
    /\ UNCHANGED <<m_read_count_mutex, m_reader_count>>

\* unlock() (lines 82-89)
unlock ==
    /\ m_writer_waiting' = FALSE
    /\ m_write_semaphore' = TRUE
    /\ UNCHANGED <<m_read_count_mutex, m_reader_count>>

\* Slot g can take a new guard object.
Vacant(g) == guards[g].life # "alive"

\* The guard object in slot g becomes x.
SetGuard(g, x) == guards' = [guards EXCEPT ![g] = x]

\* A live guard of kind k with members m and o.
Guard(k, m, o) ==
    [life |-> "alive", kind |-> k, m_mutex |-> m, m_owns |-> o, other |-> 0]

\* The live guard of kind k move-constructed from the guard in slot src.
MovedGuard(k, src) ==
    [life |-> "alive", kind |-> k, m_mutex |-> guards[src].m_mutex,
     m_owns |-> guards[src].m_owns, other |-> src]

\* line 149: shared_lock()
SharedLockDefault(g) ==
    /\ Vacant(g)
    /\ SetGuard(g, Guard("shared", "null", FALSE))
    /\ UNCHANGED <<lockState, taskState, lockableState, object,
                   instanceState, timedState, notHeld>>

\* lines 151-154: shared_lock(Mutex&)
SharedLockBlocking(g) ==
    /\ Vacant(g)
    /\ lock_shared
    /\ SetGuard(g, Guard("shared", "m", TRUE))
    /\ UNCHANGED <<taskState, lockableState, object,
                   instanceState, timedState, notHeld>>

\* lines 156-158: shared_lock(Mutex&, try_to_lock_t)
SharedLockTry(g) ==
    /\ Vacant(g)
    /\ \E r \in BOOLEAN :
         /\ try_lock_shared(r)
         /\ SetGuard(g, Guard("shared", "m", r))
    /\ UNCHANGED <<taskState, lockableState, object,
                   instanceState, timedState, notHeld>>

\* The guard in slot src is alive and of kind k; slot g can take the guard
\* move-constructed from it.
CanMove(g, src, k) ==
    /\ g # src
    /\ Vacant(g)
    /\ guards[src].life = "alive"
    /\ guards[src].kind = k

\* Mutant of SharedLockMove: the source keeps its members (a copy).
SharedLockMove_KeepsSource(g, src) ==
    /\ CanMove(g, src, "shared")
    /\ guards' = [guards EXCEPT ![g] = MovedGuard("shared", src)]
    /\ UNCHANGED <<lockState, taskState, lockableState, object,
                   instanceState, timedState, notHeld>>

\* lines 171-175: shared_lock(shared_lock&& other)
SharedLockMove(g, src) ==
    /\ CanMove(g, src, "shared")
    /\ guards' = [guards EXCEPT
                    ![g] = MovedGuard("shared", src),
                    ![src] = [@ EXCEPT !.m_mutex = "null", !.m_owns = FALSE]]
    /\ UNCHANGED <<lockState, taskState, lockableState, object,
                   instanceState, timedState, notHeld>>

\* The guard in slot g ends its life; its storage keeps what its members were.
Destroyed(g) == guards' = [guards EXCEPT ![g].life = "destroyed"]

\* Mutant of SharedLockDestroy: the destructor does not test m_owns.
SharedLockDestroy_AlwaysReleases(g) ==
    /\ guards[g].life = "alive"
    /\ guards[g].kind = "shared"
    /\ unlock_shared
    /\ Destroyed(g)
    /\ UNCHANGED <<taskState, lockableState, object,
                   instanceState, timedState, notHeld>>

\* lines 160-164: ~shared_lock()
SharedLockDestroy(g) ==
    /\ guards[g].life = "alive"
    /\ guards[g].kind = "shared"
    /\ IF guards[g].m_owns /\ guards[g].m_mutex # "null"
         THEN unlock_shared
         ELSE UNCHANGED lockState
    /\ Destroyed(g)
    /\ UNCHANGED <<taskState, lockableState, object,
                   instanceState, timedState, notHeld>>

\* line 194: unique_lock()
UniqueLockDefault(g) ==
    /\ Vacant(g)
    /\ SetGuard(g, Guard("unique", "null", FALSE))
    /\ UNCHANGED <<lockState, taskState, lockableState, object,
                   instanceState, timedState, notHeld>>

\* lines 196-199: unique_lock(Mutex&)
UniqueLockBlocking(g) ==
    /\ Vacant(g)
    /\ lock
    /\ SetGuard(g, Guard("unique", "m", TRUE))
    /\ UNCHANGED <<taskState, lockableState, object,
                   instanceState, timedState, notHeld>>

\* lines 201-203: unique_lock(Mutex&, try_to_lock_t)
UniqueLockTry(g) ==
    /\ Vacant(g)
    /\ try_lock
    /\ SetGuard(g, Guard("unique", "m", try_lock_result))
    /\ UNCHANGED <<taskState, lockableState, object,
                   instanceState, timedState, notHeld>>

\* lines 216-220: unique_lock(unique_lock&& other)
UniqueLockMove(g, src) ==
    /\ CanMove(g, src, "unique")
    /\ guards' = [guards EXCEPT
                    ![g] = MovedGuard("unique", src),
                    ![src] = [@ EXCEPT !.m_mutex = "null", !.m_owns = FALSE]]
    /\ UNCHANGED <<lockState, taskState, lockableState, object,
                   instanceState, timedState, notHeld>>

\* lines 205-209: ~unique_lock()
UniqueLockDestroy(g) ==
    /\ guards[g].life = "alive"
    /\ guards[g].kind = "unique"
    /\ IF guards[g].m_owns /\ guards[g].m_mutex # "null"
         THEN unlock
         ELSE UNCHANGED lockState
    /\ Destroyed(g)
    /\ UNCHANGED <<taskState, lockableState, object,
                   instanceState, timedState, notHeld>>

GuardNext ==
    \E g \in Guards :
        \/ SharedLockDefault(g) \/ SharedLockBlocking(g) \/ SharedLockTry(g)
        \/ SharedLockDestroy(g)
        \/ UniqueLockDefault(g) \/ UniqueLockBlocking(g) \/ UniqueLockTry(g)
        \/ UniqueLockDestroy(g)
        \/ \E src \in Guards : SharedLockMove(g, src) \/ UniqueLockMove(g, src)

\* One task constructs, moves and destroys guards on a ReliableSharedMutex.
GuardSpec == Init /\ [][GuardNext]_vars

----
(* Ownership as the callers see it *)

\* Tasks between a successful lock()/try_lock() and their call of unlock().
ExclusiveHolders == {t \in Threads : writeGuard[t]}

\* Tasks between a successful lock_shared()/try_lock_shared() and the call of
\* unlock_shared() that releases their last read guard.
SharedHolders == {t \in Threads : readGuards[t] > 0}

\* Tasks inside lock() that have set m_writer_waiting (line 45).
WritersWaiting ==
    {t \in Threads : pc[t] \in {"lock_drain_delay", "lock_drain_check",
                                "lock_take_semaphore"}}

----
\* C1: no reachable state has one task holding exclusive ownership while
\* another task holds shared ownership.
C1_SharedExcludesExclusive ==
    \A w \in ExclusiveHolders : \A r \in SharedHolders : w = r

\* C2: at most one task is between a successful lock()/try_lock() and its
\* matching unlock().
C2_AtMostOneExclusiveHolder == Cardinality(ExclusiveHolders) <= 1

\* C2 witness: one writer holds the lock while a second writer is blocked in
\* lock() on the write semaphore and a third task has been refused by try_lock().
C2_Witness ==
    \E w \in ExclusiveHolders : \E v, u \in Threads :
        /\ v # w /\ u # w /\ u # v
        /\ pc[v] = "lock_take_semaphore"
        /\ pc[u] = "done" /\ op[u] = "try_lock" /\ ~m_owns[u]

\* C3: once a writer has set the flag inside lock(), no lock_shared() or
\* try_lock_shared() is granted (m_reader_count is not incremented) before that
\* writer has acquired the exclusive lock.
C3_WriterPriority ==
    [][WritersWaiting # {} => m_reader_count' <= m_reader_count]_vars

\* Task t's try_lock_shared() decides in this step (lines 115-123).
TryLockSharedDecides(t) ==
    pc[t] = "try_lock_shared_check" /\ pc'[t] = "done"

\* C4: while any task holds exclusive access, a try_lock_shared() by any task
\* returns a non-holding guard and does not increment m_reader_count.
C4_NoReadAccessWhileExclusive ==
    [][\A t \in Threads :
          (ExclusiveHolders # {} /\ TryLockSharedDecides(t))
              => (~m_owns'[t] /\ m_reader_count' = m_reader_count)]_vars

----
\* Task t's try_lock_shared() (getReadAccess()) has returned.
ReadAccessReturned(t) == pc[t] = "done" /\ op[t] = "try_lock_shared"

\* The sum of f over S.
RECURSIVE Sum(_, _)
Sum(f, S) ==
    IF S = {} THEN 0
    ELSE LET x == CHOOSE y \in S : TRUE IN f[x] + Sum(f, S \ {x})

\* Task t is alone: every other task is outside the lock operations and holds
\* nothing.
SoleUser(t) ==
    \A u \in Threads \ {t} :
        pc[u] \in {"idle", "done"} /\ readGuards[u] = 0 /\ ~writeGuard[u]

\* C5: after an exclusive holder's unlock() has returned, with no writer
\* waiting or active since the read access was called, that read access
\* returns a holding accessor.
C5_ReadAccessAfterUnlock ==
    \A t \in Threads :
        (/\ ReadAccessReturned(t) /\ ~writerSeen[t]
         /\ \E w \in Threads : pc[w] = "done" /\ op[w] = "unlock") => m_owns[t]

\* C6: with no writer waiting or active, read acquisitions made by all tasks
\* at the same time all succeed: every accessor reports holding and
\* m_reader_count is the number of accessors held.
C6_SharedHoldersCoexist ==
    (\A t \in Threads : ReadAccessReturned(t) /\ ~writerSeen[t])
        => /\ \A t \in Threads : m_owns[t]
           /\ m_reader_count = Sum(readGuards, Threads)

\* C7: a task that is the only user of the lock gets a holding accessor from
\* every read access, and once it has released its accessors the lock is back
\* in its initial state.
C7_ReadRoundTrip ==
    /\ [][\A t \in Threads :
            (SoleUser(t) /\ ~writeGuard[t] /\ InTryLockShared(t)
                 /\ pc[t] # "done" /\ pc'[t] = "done") => m_owns'[t]]_vars
    /\ [](\A t \in Threads :
            (SoleUser(t) /\ ~writeGuard[t] /\ readGuards[t] = 0
                 /\ pc[t] = "done" /\ op[t] = "unlock_shared")
                => /\ m_reader_count = 0
                   /\ m_writer_waiting = FALSE
                   /\ m_write_semaphore = TRUE
                   /\ m_read_count_mutex = 0)

\* C8: a read access returns non-holding only if a writer was waiting or
\* active at some moment of the call.
C8_ReadAccessFailsOnlyForWriter ==
    \A t \in Threads : (ReadAccessReturned(t) /\ ~m_owns[t]) => writerSeen[t]

----
\* try_lock() has returned to task t.
TryLockReturned(t) == pc[t] = "done" /\ op[t] = "try_lock"

\* Task t takes a step inside try_lock().
TryLockSteps(t) ==
    pc[t] \in {"try_lock_take_mutex", "try_lock_check"} /\ pc'[t] # pc[t]

\* C11: try_lock() returns true only from a state with m_reader_count = 0 and
\* the write semaphore available, and once it has returned true the caller is
\* the one exclusive holder and m_writer_waiting is set.
C11_TryLockSuccessCondition ==
    /\ [][\A t \in Threads :
            (TryLockSteps(t) /\ pc'[t] = "done" /\ m_owns'[t])
                => /\ pc[t] = "try_lock_check"
                   /\ m_reader_count = 0
                   /\ m_write_semaphore = TRUE
                   /\ m_write_semaphore' = FALSE]_vars
    /\ [](\A t \in Threads :
            (TryLockReturned(t) /\ m_owns[t])
                => /\ ExclusiveHolders = {t}
                   /\ m_writer_waiting
                   /\ m_write_semaphore = FALSE)

\* C11 witness: try_lock() has returned true to one task while another task is
\* inside lock(), past the reader drain, waiting for the write semaphore.
C11_Witness ==
    \E t, v \in Threads :
        /\ TryLockReturned(t) /\ m_owns[t]
        /\ pc[v] = "lock_take_semaphore"

\* C12: a step of try_lock() that does not end in success leaves
\* m_reader_count, m_writer_waiting and the write semaphore as they were, and a
\* try_lock() that returns false does not hold m_read_count_mutex.
C12_TryLockFailureNoEffect ==
    [][\A t \in Threads :
          (TryLockSteps(t) /\ ~m_owns'[t])
              => /\ m_reader_count' = m_reader_count
                 /\ m_writer_waiting' = m_writer_waiting
                 /\ m_write_semaphore' = m_write_semaphore
                 /\ (pc'[t] = "done" => m_read_count_mutex' # t)
                 /\ (pc[t] = "try_lock_take_mutex" /\ pc'[t] = "done"
                        => m_read_count_mutex' = m_read_count_mutex)]_vars

\* C12 witness: try_lock() has returned false to three tasks at once, with
\* readers counted, so that the failure paths of lines 62 and 68 were taken.
C12_Witness ==
    /\ \A t \in Threads : TryLockReturned(t) /\ ~m_owns[t]
    /\ m_reader_count > 0
    /\ m_read_count_mutex = 0

\* getReadAccess() has returned to task t.
GetReadAccessReturned(t) == pc[t] = "done" /\ op[t] = "getReadAccess"

\* lock() has returned to task t (unique_lock(Mutex&), lines 196-199).
LockReturned(t) == pc[t] = "done" /\ op[t] = "lock"

\* getWriteAccess() without a timeout has returned to task t.
WriteAccessReturned(t) == pc[t] = "done" /\ op[t] = "getWriteAccess"

\* C9: when lock() or getWriteAccess() without a timeout has returned, the
\* guard or accessor reports holding and the caller is the exclusive owner.
C9_UnboundedWriteNeverFails ==
    \A t \in Threads :
        /\ LockReturned(t)
             => /\ m_owns[t]
                /\ ExclusiveHolders = {t}
                /\ m_write_semaphore = FALSE
        /\ WriteAccessReturned(t)
             => /\ m_owns[t]
                /\ m_mutex.exclusive = t

----
\* The retry loop of task t's try_lock_shared() ends without the mutex ever
\* having been obtained (line 130).
TryLockSharedGivesUp(t) ==
    pc[t] = "try_lock_shared_take_mutex" /\ pc'[t] = "done"

\* C14: when the retry loop of try_lock_shared() ends without any attempt
\* having obtained m_read_count_mutex, the call returns false and nothing
\* ends the process, with m_reader_count, m_writer_waiting, the write
\* semaphore and m_read_count_mutex unchanged, the mutex not held by the
\* caller and no guard gained.
C14_RetryExhaustedReturnsFalse ==
    [][\A t \in Threads :
          TryLockSharedGivesUp(t)
              => /\ ~m_owns'[t]
                 /\ op'[t] = "try_lock_shared"
                 /\ ~aborted'
                 /\ lockState' = lockState
                 /\ m_read_count_mutex' # t
                 /\ readGuards' = readGuards]_vars

\* C14 witness: try_lock_shared() has returned false although no writer was
\* waiting or active at any moment of the call, while another task holds
\* m_read_count_mutex: the window of the retry loop ran out.
C14_Witness ==
    \E t \in Threads :
        /\ ReadAccessReturned(t) /\ ~m_owns[t] /\ ~writerSeen[t]
        /\ m_writer_waiting = FALSE
        /\ m_read_count_mutex \notin {0, t}

----
\* The live guards of kind k that are Held.
HeldGuards(k) ==
    {g \in Guards : /\ guards[g].life = "alive"
                    /\ guards[g].kind = k
                    /\ guards[g].m_owns
                    /\ guards[g].m_mutex # "null"}

\* The lock has been acquired once for every Held guard alive and released
\* for every other: the reader count is the number of Held shared_lock guards
\* and the write semaphore is taken exactly when a Held unique_lock is alive.
LockMatchesGuards ==
    /\ m_reader_count = Cardinality(HeldGuards("shared"))
    /\ Cardinality(HeldGuards("unique")) <= 1
    /\ m_write_semaphore = (HeldGuards("unique") = {})
    /\ m_writer_waiting = (HeldGuards("unique") # {})

\* The guard in slot g is destroyed in this step.
GuardDestroyed(g) == guards[g].life = "alive" /\ guards'[g].life = "destroyed"

\* C15: destroying a Held guard calls the matching release exactly once,
\* destroying a Failed or default-constructed guard calls no release, and so
\* the lock is always acquired exactly as often as Held guards are alive.
C15_ExactlyOnceRelease ==
    /\ [][\A g \in Guards :
            GuardDestroyed(g) =>
                IF g \in HeldGuards("shared")
                  THEN /\ m_reader_count' = m_reader_count - 1
                       /\ UNCHANGED <<m_write_semaphore, m_writer_waiting>>
                ELSE IF g \in HeldGuards("unique")
                  THEN /\ m_write_semaphore' = TRUE /\ m_write_semaphore = FALSE
                       /\ m_writer_waiting' = FALSE
                       /\ UNCHANGED m_reader_count
                ELSE UNCHANGED lockState]_vars
    /\ []LockMatchesGuards

\* C15 witness: a Held guard and a Failed guard have both been destroyed, a
\* Held guard is still alive, and the reader count is 1.
C15_Witness ==
    \E g, h, i \in Guards :
        /\ guards[g].life = "destroyed" /\ guards[g].m_owns
        /\ guards[h].life = "destroyed" /\ ~guards[h].m_owns /\ guards[h].m_mutex = "m"
        /\ i \in HeldGuards("shared")
        /\ m_reader_count = 1

\* Slot g receives in this step the guard move-constructed from the guard in
\* slot src, whatever the members of the source are (a source that is
\* default-constructed or was moved from before is not changed by the move).
GuardMoved(g, src) ==
    /\ g # src
    /\ guards[g].life # "alive" /\ guards'[g].life = "alive"
    /\ guards'[g].other = src

\* C16: a move gives the destination the source's m_owns and m_mutex and
\* leaves the source not owning with a null m_mutex; the lock is not touched
\* and as many guards are Held after the move as before, so that destroying
\* source and destination releases the lock once if the source was Held and
\* not at all otherwise.
C16_MoveTransfersOwnership ==
    /\ [][\A g, src \in Guards :
            GuardMoved(g, src) =>
                /\ guards'[g].m_owns = guards[src].m_owns
                /\ guards'[g].m_mutex = guards[src].m_mutex
                /\ guards'[g].kind = guards[src].kind
                /\ guards'[src].life = "alive"
                /\ ~guards'[src].m_owns
                /\ guards'[src].m_mutex = "null"
                /\ lockState' = lockState
                /\ \A k \in {"shared", "unique"} :
                      Cardinality(HeldGuards(k))' = Cardinality(HeldGuards(k))]_vars
    /\ [](\A g \in Guards : guards[g].m_mutex = "null" => ~guards[g].m_owns)
    /\ [](m_reader_count = Cardinality(HeldGuards("shared")))

\* C16 witness: a guard that was moved from has been destroyed, the guard it
\* was moved into is Held and alive, and the reader count is 1.
C16_Witness ==
    \E g, src \in Guards :
        /\ guards[src].life = "destroyed" /\ guards[src].m_mutex = "null"
        /\ guards[src].kind = "shared"
        /\ g \in HeldGuards("shared")
        /\ HeldGuards("shared") = {g}
        /\ m_reader_count = 1
        /\ \A h \in Guards \ {g, src} : guards[h].life = "free"

----
\* Tasks that have called unlock_shared() and have not yet obtained
\* m_read_count_mutex (line 134): their release has not happened yet.
ReleasesPending == {t \in Threads : pc[t] = "unlock_shared_take_mutex"}

\* C17: m_reader_count is never negative and, whenever m_read_count_mutex is
\* free, it is the number of shared acquisitions that have succeeded and have
\* not yet been released.
C17_ReaderCountInvariant ==
    /\ m_reader_count >= 0
    /\ m_read_count_mutex = 0
         => m_reader_count = Sum(readGuards, Threads) + Cardinality(ReleasesPending)

\* C17 witness: with the mutex free, one task holds two nested read guards,
\* another holds one, and a third has called unlock_shared() and waits for
\* the mutex; the count is one more than the read guards held.
C17_Witness ==
    \E t, u, v \in Threads :
        /\ readGuards[t] = 2 /\ readGuards[u] = 1 /\ u # t
        /\ v \in ReleasesPending
        /\ m_read_count_mutex = 0
        /\ m_reader_count = Sum(readGuards, Threads) + 1

----
\* Task t executes the assignment of reset() (LockableObject.hpp line 123) or
\* of resetDb() (ScopedLockAccess.hpp line 95) in this step.
ResetAssigns(t) ==
    pc[t] \in {"reset_assign", "reset_db_assign"} /\ pc'[t] # pc[t]

\* C18: the assignment of reset() / resetDb() is executed only by a task that
\* owns m_mutex exclusively, with no shared owner, and nothing else replaces
\* the protected object by the default value.
C18_ResetOnlyUnderExclusiveLock ==
    [][/\ \A t \in Threads :
            ResetAssigns(t) => /\ m_mutex.exclusive = t
                               /\ m_mutex.shared = 0
                               /\ m_mutex' = m_mutex
                               /\ m_protected' = Default
       /\ (m_protected' = Default /\ m_protected # Default)
            => \E t \in Threads : ResetAssigns(t)]_vars

\* C18 witness: reset() has assigned and not yet released, the protected
\* object is default, and another task waits for a read access.
C18_Witness ==
    \E t, u \in Threads :
        /\ pc[t] = "reset_release"
        /\ m_mutex.exclusive = t
        /\ m_protected = Default
        /\ pc[u] = "read_access_wait"

\* reset() or resetDb() has returned to task t.
ResetReturned(t) == pc[t] = "done" /\ op[t] \in {"reset", "resetDb"}

\* C19: when reset() has returned it has acquired exclusive access (the
\* accessor it tested at line 121 was holding), so it has replaced the
\* protected object, and it has released the exclusive access again.
C19_ResetPostcondition ==
    \A t \in Threads :
        ResetReturned(t) => /\ m_owns[t]
                            /\ m_mutex.exclusive # t
                            /\ ~writeGuard[t]

\* C20: the protected object does not change while a read accessor is
\* holding; reset() assigns with no read accessor holding, and at the step in
\* which reset() releases m_mutex the protected object is default, so a read
\* accessor acquired from then on sees the default value until the next
\* exclusive owner changes it.
C20_ResetAtomicForReaders ==
    [][/\ m_mutex.shared > 0 => m_protected' = m_protected
       /\ m_mutex'.shared > m_mutex.shared
            => \A t \in Threads : pc[t] \notin {"reset_assign", "reset_release"}
       /\ \A t \in Threads :
            (pc[t] = "reset_release" /\ pc'[t] = "done")
                => /\ m_protected = Default
                   /\ m_protected' = Default
                   /\ m_mutex.shared = 0
                   /\ m_mutex' = [exclusive |-> 0, shared |-> 0]]_vars

\* C20 witness: reset() has returned after resetting, and a read accessor
\* acquired afterwards by a task that had been refused before is holding and
\* sees the default value.
C20_Witness ==
    \E t, u \in Threads :
        /\ ResetReturned(t) /\ m_owns[t]
        /\ GetReadAccessReturned(u) /\ m_owns[u] /\ readGuards[u] = 1
        /\ m_mutex.shared = 1
        /\ m_protected = Default

----
\* C25: lock() sets the flag, leaves the drain only with m_reader_count = 0
\* and the flag set, takes the write semaphore after that, and at the step in
\* which it returns m_reader_count is 0.
C25_LockCompletesAfterDrain ==
    [][\A t \in Threads :
          /\ (/\ pc[t] \in {"lock_set_flag", "lock_drain_check"}
              /\ pc'[t] = "lock_take_semaphore")
                => (m_reader_count = 0 /\ m_writer_waiting')
          /\ (pc[t] = "lock_take_semaphore" /\ pc'[t] = "done")
                => (m_reader_count = 0 /\ m_reader_count' = 0)]_vars

----
\* The task that holds m_read_count_mutex is at one of the statements the
\* operations execute between taking and giving it.
CriticalStatements ==
    {"lock_set_flag", "lock_drain_check", "try_lock_check", "unlock_clear_flag",
     "lock_shared_check", "try_lock_shared_check", "unlock_shared_decrement"}

\* C26: m_reader_count is incremented only by the task that holds
\* m_read_count_mutex, inside lock_shared() or try_lock_shared(), in a state
\* where m_writer_waiting is false; with the flag true try_lock_shared()
\* returns false and lock_shared() goes back to polling, both without
\* incrementing.
C26_FlagGatesSharedGrant ==
    [][/\ m_reader_count' > m_reader_count
            => /\ ~m_writer_waiting
               /\ m_reader_count' = m_reader_count + 1
               /\ \E t \in Threads :
                     /\ m_read_count_mutex = t
                     /\ pc[t] \in {"lock_shared_check", "try_lock_shared_check"}
                     /\ pc'[t] = "done" /\ m_owns'[t]
       /\ \A t \in Threads :
            (m_writer_waiting /\ pc[t] = "try_lock_shared_check" /\ pc'[t] # pc[t])
                => (pc'[t] = "done" /\ ~m_owns'[t] /\ m_reader_count' = m_reader_count)
       /\ \A t \in Threads :
            (m_writer_waiting /\ pc[t] = "lock_shared_check" /\ pc'[t] # pc[t])
                => (pc'[t] = "lock_shared_take_mutex"
                      /\ m_reader_count' = m_reader_count)]_vars

\* C26 witness: the flag is set by a writer waiting for the readers to drain,
\* try_lock_shared() has returned false to one task and a reader counted
\* before is still holding.
C26_Witness ==
    \E t, u, w \in Threads :
        /\ m_writer_waiting
        /\ pc[w] \in {"lock_drain_delay", "lock_drain_check"}
        /\ ReadAccessReturned(t) /\ ~m_owns[t] /\ readGuards[t] = 0
        /\ readGuards[u] > 0 /\ m_reader_count = 1

----
\* C27: m_reader_count and m_writer_waiting change only in a step of the task
\* that holds m_read_count_mutex; at most one task is between a take and the
\* give of m_read_count_mutex, and it is the holder; a task that has returned,
\* that waits for the mutex or that waits for the write semaphore does not
\* hold m_read_count_mutex.
C27_BookkeepingAtomicity ==
    /\ [][(m_reader_count' # m_reader_count \/ m_writer_waiting' # m_writer_waiting)
            => \E t \in Threads :
                  /\ m_read_count_mutex = t
                  /\ pc[t] \in CriticalStatements
                  /\ pc'[t] # pc[t]
                  /\ m_read_count_mutex' = 0]_vars
    /\ [](Cardinality({t \in Threads : pc[t] \in CriticalStatements}) <= 1)
    /\ [](\A t \in Threads : pc[t] \in CriticalStatements <=> m_read_count_mutex = t)

\* C27 witness: one task is inside unlock() holding m_read_count_mutex while a
\* second waits for it in unlock_shared() and a third waits in lock() for the
\* write semaphore.
C27_Witness ==
    \E t, u, v \in Threads :
        /\ pc[t] = "unlock_clear_flag" /\ m_read_count_mutex = t
        /\ pc[u] = "unlock_shared_take_mutex"
        /\ pc[v] = "lock_take_semaphore" /\ ~WriteSemaphoreAvailable

----
\* C28: whenever a task holds exclusive ownership, or is inside lock() after
\* having set the flag, m_writer_waiting is true.
C28_WriterFlagFaithful ==
    (ExclusiveHolders # {} \/ WritersWaiting # {}) => m_writer_waiting

----
\* Task t calls getInstance() in this step.
GetInstanceCalled(t) == pc[t] = "idle" /\ op'[t] = "getInstance"

\* C21: getInstance() called while no instance is registered (none yet, or a
\* null pointer registered last) ends the process by a failed assertion and
\* returns nothing; called with an instance registered it does not end the
\* process; a getInstance() that returns gives a reference to the instance
\* passed to the latest setStaticInstance(); and nothing else ends the
\* process.
C21_InstanceRegistration ==
    /\ [][\A t \in Threads :
            /\ GetInstanceCalled(t) =>
                IF registered = Null
                  THEN aborted' /\ pc'[t] = "assert" /\ instance'[t] = instance[t]
                  ELSE ~aborted' /\ pc'[t] = "get_instance_return"
            /\ (pc[t] = "get_instance_return" /\ pc'[t] = "done")
                    => instance'[t] = registered]_vars
    /\ [](aborted => \E t \in Threads : op[t] = "getInstance" /\ pc[t] = "assert")

\* C21 witness: getInstance() has returned the first registered instance to
\* one task and, after a second registration, the second instance to another;
\* then a null pointer was registered and a getInstance() ended the process.
C21_Witness ==
    \E t, u, v \in Threads :
        /\ instance[t] = 1 /\ instance[u] = 2
        /\ registered = Null
        /\ aborted /\ pc[v] = "assert"

----
\* C24: the timeout a timed accessor call waits with is the larger of the
\* caller's timeout and minBlockTime (10 ms): never below the floor, never
\* below the caller's timeout, and one of the two, for every task that is
\* inside getReadAccess(timeout) or getWriteAccess(timeout) or has just
\* returned from it.
C24_TimeoutFloor ==
    \A t \in Threads :
        op[t] \in {"getReadAccess(timeout)", "getWriteAccess(timeout)"} =>
            /\ actual_timeout[t] >= minBlockTime
            /\ actual_timeout[t] >= timeout_duration[t]
            /\ actual_timeout[t] \in {minBlockTime, timeout_duration[t]}
            /\ timeout_duration[t] < minBlockTime => actual_timeout[t] = minBlockTime
            /\ timeout_duration[t] >= minBlockTime
                 => actual_timeout[t] = timeout_duration[t]

\* C24 witness: a read access asked for with a negative timeout waits with the
\* floor, behind a write accessor that was asked for with a timeout above
\* the floor and waited with that; a third call, with 9 ms, has timed out.
C24_Witness ==
    \E t, u, v \in Threads :
        /\ pc[t] = "timed_read_access_wait"
        /\ timeout_duration[t] < 0 /\ actual_timeout[t] = minBlockTime
        /\ op[u] = "getWriteAccess(timeout)" /\ pc[u] = "done" /\ m_owns[u]
        /\ timeout_duration[u] > minBlockTime
        /\ actual_timeout[u] = timeout_duration[u]
        /\ op[v] = "getWriteAccess(timeout)" /\ pc[v] = "done" /\ ~m_owns[v]
        /\ timeout_duration[v] = minBlockTime - 1
        /\ actual_timeout[v] = minBlockTime

----
\* C22: a release called by a task that does not hold the lock never returns
\* (the process is ended by an assertion) and none of its steps changes
\* m_reader_count, m_writer_waiting or the write semaphore; m_reader_count is
\* never negative and the write semaphore is never available while a task
\* holds exclusive ownership.
C22_ReleaseNotHeldIsFatal ==
    /\ [][\A t \in Threads :
            (notHeld[t] /\ pc'[t] # pc[t])
                => UNCHANGED <<m_reader_count, m_writer_waiting, m_write_semaphore>>]_vars
    /\ [](\A t \in Threads : notHeld[t] => pc[t] # "done")
    /\ [](m_reader_count >= 0)
    /\ [](ExclusiveHolders # {} => ~WriteSemaphoreAvailable)

----
(* Fair scheduling *)

\* The steps of task t that cannot block.
Running(t) ==
    \/ LockSetFlag(t) \/ LockDrainCheck(t)
    \/ TryLockTakeMutex(t) \/ TryLockCheck(t)
    \/ UnlockClearFlag(t) \/ UnlockGiveSemaphore(t)
    \/ LockSharedCheck(t)
    \/ TryLockSharedTakeMutex(t) \/ TryLockSharedCheck(t)
    \/ UnlockSharedDecrement(t)
    \/ Return(t)

\* The steps of task t that wait with portMAX_DELAY for a semaphore.
Blocking(t) ==
    \/ LockTakeMutex(t) \/ LockDrainRetake(t) \/ LockTakeSemaphore(t)
    \/ UnlockTakeMutex(t)
    \/ LockSharedTakeMutex(t)
    \/ UnlockSharedTakeMutex(t)

\* Every task that can run does run, a task waiting for a semaphore that
\* becomes available again and again gets it, and every task that holds the
\* lock eventually releases it.
Fairness ==
    \A t \in Threads :
        /\ WF_vars(Running(t))
        /\ SF_vars(Blocking(t))
        /\ SF_vars(CallUnlock(t))
        /\ SF_vars(CallUnlockShared(t))

FairSpec == Init /\ [][Next]_vars /\ Fairness

\* C10: under fair scheduling, with every holder eventually releasing, every
\* call of lock() eventually returns.
C10_LockEventuallyReturns ==
    \A t \in Threads :
        (pc[t] = "lock_take_mutex") ~> (pc[t] = "done" /\ op[t] = "lock")

----
(* Tasks that hold at most one acquisition at a time *)

\* Task t enters an acquiring operation in this step.
Acquires(t) ==
    /\ pc[t] = "idle"
    /\ op'[t] \in {"lock", "try_lock", "lock_shared", "try_lock_shared"}

\* Task t holds no guard.
HoldsNothing(t) == readGuards[t] = 0 /\ ~writeGuard[t]

\* A step of the lock operations in which a task that acquires holds nothing.
HoldOneNext ==
    \E t \in Threads : Step(t) /\ (Acquires(t) => HoldsNothing(t))

\* Every task that can run does run, a task waiting for a semaphore that
\* becomes available again and again gets it, and a task that holds the lock
\* eventually calls the release.
HoldOneFairness ==
    \A t \in Threads :
        /\ WF_vars(Running(t))
        /\ SF_vars(Blocking(t))
        /\ WF_vars(CallUnlock(t) \/ CallUnlockShared(t))

HoldOneFairSpec == Init /\ [][HoldOneNext]_vars /\ HoldOneFairness

----
(* The release operations called by a task that does not hold the lock.
   unlock() and unlock_shared() are public members of ReliableSharedMutex and
   test nothing before they act. *)

\* unlock_shared() called by a task that holds no shared lock.  The calls are
\* bounded so that the count stays within MaxNest below zero per task.
CallUnlockSharedNotHeld(t) ==
    /\ readGuards[t] = 0
    /\ m_reader_count > 0 - MaxNest
    /\ object = "ReliableSharedMutex"
    /\ Call(t, "unlock_shared", "unlock_shared_take_mutex")
    /\ notHeld' = [notHeld EXCEPT ![t] = TRUE]
    /\ UNCHANGED lockableState
    /\ UNCHANGED <<object, guards, instanceState, timedState>>
    /\ UNCHANGED <<lockState, callState, clientState>>

\* unlock() called by a task that holds no exclusive lock.  The task is from
\* now on inside unlock(), which WriterWaitingOrActive counts as a writer, so
\* every try_lock_shared() in progress has overlapped a writer.
CallUnlockNotHeld(t) ==
    /\ ~writeGuard[t]
    /\ object = "ReliableSharedMutex"
    /\ Call(t, "unlock", "unlock_take_mutex")
    /\ WriterArrives
    /\ notHeld' = [notHeld EXCEPT ![t] = TRUE]
    /\ UNCHANGED lockableState
    /\ UNCHANGED <<object, guards, instanceState, timedState>>
    /\ UNCHANGED <<lockState, tries, clientState>>

ReleaseNotHeldNext ==
    \E t \in Threads :
        \/ Step(t) /\ (Acquires(t) => HoldsNothing(t))
        \/ CallUnlockSharedNotHeld(t)
        \/ CallUnlockNotHeld(t)

\* The tasks use a ReliableSharedMutex, holding at most one guard each, and
\* also release what they do not hold.
ReleaseNotHeldSpec == Init /\ [][ReleaseNotHeldNext]_vars

----
(* A second exclusive acquisition by the task that holds the lock *)

\* lock() called by the task that holds the exclusive lock (a second
\* unique_lock(Mutex&) while the first is alive).
CallLockReentrant(t) ==
    /\ writeGuard[t]
    /\ object = "ReliableSharedMutex"
    /\ Call(t, "lock", "lock_take_mutex")
    /\ WriterArrives
    /\ UNCHANGED lockableState
    /\ UNCHANGED <<object, guards, instanceState, timedState, notHeld>>
    /\ UNCHANGED <<lockState, tries, clientState>>

\* getWriteAccess() called by the task that holds the write accessor (the
\* disabled test "Two simulaneous write locks are not allowed").  try_lock_for
\* by the owner of m_mutex is undefined behaviour: the call waits for ever
\* (the wait is never left) or returns a non-holding accessor
\* (WriteAccessTimeout).
CallGetWriteAccessReentrant(t) ==
    /\ writeGuard[t]
    /\ object = "LockableObject"
    /\ Call(t, "getWriteAccess", "write_access_wait")
    /\ UNCHANGED <<object, guards, instanceState, timedState, notHeld>>
    /\ UNCHANGED <<lockState, callState, clientState, lockableState>>

ReentrantNext ==
    \E t \in Threads :
        \/ Step(t) /\ (Acquires(t) => HoldsNothing(t))
        \/ CallLockReentrant(t)

\* The tasks use a ReliableSharedMutex, and a task that holds the exclusive
\* lock may call lock() again.  Scheduling is fair as in HoldOneFairness.
ReentrantFairSpec == Init /\ [][ReentrantNext]_vars /\ HoldOneFairness

ReentrantAccessNext ==
    \E t \in Threads : LockableStep(t) \/ CallGetWriteAccessReentrant(t)

\* The tasks use a LockableObject, and a task that holds the write accessor
\* may call getWriteAccess() again.
ReentrantAccessSpec == LockableInit /\ [][ReentrantAccessNext]_vars

----
\* Task t is inside an operation that waits with portMAX_DELAY: lock(),
\* lock_shared(), unlock() or unlock_shared().
InBlockingCall(t) ==
    /\ op[t] \in {"lock", "lock_shared", "unlock", "unlock_shared"}
    /\ pc[t] # "done"

\* C29: no task waits for the write semaphore while it holds
\* m_read_count_mutex, and under fair scheduling, with every holder eventually
\* releasing, whenever tasks are inside blocking operations some operation
\* eventually completes: the tasks are never all blocked for ever.
C29_DeadlockFreedom ==
    /\ [](\A t \in Threads : pc[t] = "lock_take_semaphore" => m_read_count_mutex # t)
    /\ (\E t \in Threads : InBlockingCall(t))
         ~> (\E t \in Threads :
                /\ pc[t] = "done"
                /\ (m_owns[t] \/ op[t] \in {"unlock", "unlock_shared"}))

\* C29 witness: every task is inside a blocking operation at the same time:
\* one writer in unlock(), one in lock() waiting for the write semaphore and a
\* reader polling in lock_shared().
C29_Witness ==
    \E t, u, v \in Threads :
        /\ op[t] = "unlock" /\ pc[t] = "unlock_give_semaphore"
        /\ pc[u] = "lock_take_semaphore"
        /\ op[v] = "lock_shared" /\ pc[v] = "lock_shared_take_mutex"
        /\ \A w \in Threads : InBlockingCall(w)

----
\* Task t, which holds the exclusive lock, is inside a second lock() or
\* getWriteAccess().
ReentrantWrite(t) ==
    /\ writeGuard[t]
    /\ op[t] \in {"lock", "getWriteAccess"}
    /\ pc[t] \notin {"idle", "done"}

\* C23: a second lock() / getWriteAccess() by the task that holds the
\* exclusive lock does not return to its caller, is never left waiting for
\* the write semaphore its caller holds, and ends in an assertion that ends
\* the process.
C23_ReentrantWriteIsFatal ==
    /\ [][\A t \in Threads : ReentrantWrite(t) => pc'[t] # "done"]_vars
    /\ [](\A t \in Threads : ~(ReentrantWrite(t) /\ pc[t] = "lock_take_semaphore"))
    /\ \A t \in Threads : ReentrantWrite(t) ~> aborted

----
(* An exclusive acquisition by a task that holds a shared lock *)

\* lock() called by a task that holds a shared lock and keeps it (a
\* unique_lock(Mutex&) while the task's own shared_lock is alive).
CallLockUpgrade(t) ==
    /\ readGuards[t] > 0
    /\ ~writeGuard[t]
    /\ object = "ReliableSharedMutex"
    /\ Call(t, "lock", "lock_take_mutex")
    /\ WriterArrives
    /\ UNCHANGED lockableState
    /\ UNCHANGED <<object, guards, instanceState, timedState, notHeld>>
    /\ UNCHANGED <<lockState, tries, clientState>>

\* getWriteAccess() called by a task whose own read accessor is alive.
CallGetWriteAccessUpgrade(t) ==
    /\ readGuards[t] > 0
    /\ ~writeGuard[t]
    /\ object = "LockableObject"
    /\ Call(t, "getWriteAccess", "write_access_wait")
    /\ UNCHANGED <<object, guards, instanceState, timedState, notHeld>>
    /\ UNCHANGED <<lockState, callState, clientState, lockableState>>

UpgradeNext ==
    \E t \in Threads :
        \/ Step(t) /\ (Acquires(t) => HoldsNothing(t))
        \/ CallLockUpgrade(t)

\* The tasks use a ReliableSharedMutex, and a task that holds one shared lock
\* may call lock() without releasing it.
UpgradeSpec == Init /\ [][UpgradeNext]_vars

UpgradeAccessNext ==
    \E t \in Threads : LockableStep(t) \/ CallGetWriteAccessUpgrade(t)

\* The tasks use a LockableObject, and a task whose read accessor is alive may
\* call getWriteAccess().
UpgradeAccessSpec == LockableInit /\ [][UpgradeAccessNext]_vars

\* Task t holds a shared lock and is inside lock() past the statement that
\* sets m_writer_waiting (line 47), or inside getWriteAccess().
Upgrading(t) ==
    /\ readGuards[t] > 0
    /\ \/ /\ op[t] = "lock"
          /\ pc[t] \in {"lock_drain_delay", "lock_drain_check", "lock_take_semaphore"}
       \/ /\ op[t] = "getWriteAccess"
          /\ pc[t] = "write_access_wait"

\* C30: the lock() / getWriteAccess() of a task that holds a shared lock never
\* returns and never leaves the wait for m_reader_count = 0, and from the
\* moment it has set the flag no task is granted a shared lock
\* (m_reader_count does not grow).
C30_UpgradeNeverCompletes ==
    /\ [][\A t \in Threads : Upgrading(t) => pc'[t] # "done"]_vars
    /\ [](\A t \in Threads : Upgrading(t) => pc[t] # "lock_take_semaphore")
    /\ [][(\E t \in Threads : Upgrading(t)) => m_reader_count' <= m_reader_count]_vars

----
(* Tasks sharing an object that hands out accessors *)

AccessorInit == \E o \in AccessorObjects : InitFor(o)

AccessorNext == \E t \in Threads : LockableStep(t) \/ ScopedStep(t)

\* The tasks use a LockableObject or a ScopedLockAccess.
AccessorSpec == AccessorInit /\ [][AccessorNext]_vars

----
(* What operator-> of an accessor lets its owner do *)

\* Task t has an accessor alive that was returned not holding (operator bool
\* is false): by a timed acquisition of LockableObject (m_lock{m,
\* timeout_duration}, line 59) or by the try_to_lock of
\* ScopedLockAccess::getReadAccess() (line 58).
HasNotHolding(t) ==
    /\ pc[t] = "done"
    /\ op[t] \in {"getReadAccess", "getWriteAccess",
                  "getReadAccess(timeout)", "getWriteAccess(timeout)",
                  "ScopedLockAccess::getReadAccess"}
    /\ ~m_owns[t]

\* Task u can reach the protected object: it has an accessor alive, holding or
\* not (operator-> tests nothing), or it is at the assignment of reset() /
\* resetDb().
UsesObject(u) ==
    \/ readGuards[u] > 0
    \/ writeGuard[u]
    \/ HasNotHolding(u)
    \/ pc[u] \in {"reset_assign", "reset_db_assign"}

\* The store itself ('acc->settings[k] = v' on the std::map of MyConfigDb)
\* through the pointer operator-> returned to task t, made without exclusive
\* ownership.  The value is stored.  When another task can reach the object,
\* no lock orders the store with that task's access: a data race on the
\* std::map.
StoreThroughPointer(t) ==
    /\ \E v \in Values : m_protected' = v
    /\ raced' = (raced \/ \E u \in Threads \ {t} : UsesObject(u))
    /\ UNCHANGED <<pc, aborted>>

\* After a data race the behaviour of the program is undefined.  At any later
\* moment, also while the object is accessed under the proper lock, a signal
\* may end the process (SIGSEGV, SIGABRT), a task at the object may never
\* come back from its access, or the damaged object may show another value.
UndefinedBehaviour ==
    /\ raced
    /\ \/ /\ aborted' = TRUE
          /\ UNCHANGED <<pc, m_protected>>
       \/ /\ \E u \in Threads : UsesObject(u) /\ Goto(u, "store")
          /\ UNCHANGED <<aborted, m_protected>>
       \/ /\ \E v \in {Default} \cup Values : m_protected' = v
          /\ UNCHANGED <<aborted, pc>>
    /\ UNCHANGED <<m_mutex, raced>>
    /\ UNCHANGED <<object, guards, sm_instance, registered, instance>>
    /\ UNCHANGED <<timedState, notHeld>>
    /\ UNCHANGED <<lockState, op, m_owns, callState, clientState>>

\* operator-> of a holding ReadAccess (LockableObject.hpp line 65 with
\* objType = protectedType, line 83; ScopedLockAccess.hpp line 63 returns
\* dbType*, line 81): the pointer is to the object itself, not to a const
\* object, and the task stores a value through it.  Shared ownership excludes
\* no other reader.
WriteThroughReadAccess(t) ==
    /\ object \in AccessorObjects
    /\ pc[t] = "idle"
    /\ readGuards[t] > 0
    /\ StoreThroughPointer(t)
    /\ UNCHANGED m_mutex
    /\ UNCHANGED <<object, guards, sm_instance, registered, instance>>
    /\ UNCHANGED <<timedState, notHeld>>
    /\ UNCHANGED <<lockState, op, m_owns, callState, clientState>>

\* operator-> of an accessor that was returned not holding, used to read
\* ('acc->settings.find(k)'): operator-> does not test m_lock
\* (LockableObject.hpp line 65, ScopedLockAccess.hpp line 63).  The read
\* changes nothing.  When another task holds the exclusive lock, or is at the
\* assignment of reset() / resetDb(), no lock orders the read with that task's
\* modification of the object: a data race on the std::map.
ReadThroughNotHolding(t) ==
    /\ object \in AccessorObjects
    /\ HasNotHolding(t)
    /\ raced' = (raced \/ \E u \in Threads \ {t} :
                              \/ writeGuard[u]
                              \/ pc[u] \in {"reset_assign", "reset_db_assign"})
    /\ UNCHANGED <<lockableState, aborted>>
    /\ UNCHANGED <<object, guards, sm_instance, registered, instance>>
    /\ UNCHANGED <<timedState, notHeld>>
    /\ UNCHANGED <<lockState, taskState>>

\* operator-> of an accessor that was returned not holding: operator-> does
\* not test m_lock (LockableObject.hpp line 65, ScopedLockAccess.hpp line 63),
\* and the task stores a value through it before the accessor is destroyed.
WriteThroughNotHolding(t) ==
    /\ object \in AccessorObjects
    /\ HasNotHolding(t)
    /\ StoreThroughPointer(t)
    /\ UNCHANGED m_mutex
    /\ UNCHANGED <<object, guards, sm_instance, registered, instance>>
    /\ UNCHANGED <<timedState, notHeld>>
    /\ UNCHANGED <<lockState, op, m_owns, callState, clientState>>

\* Nothing runs once a signal has ended the process.
AccessorApiNext ==
    /\ ~aborted
    /\ \/ \E t \in Threads :
            \/ LockableStep(t) \/ ScopedStep(t)
            \/ WriteThroughReadAccess(t)
            \/ WriteThroughNotHolding(t)
            \/ ReadThroughNotHolding(t)
       \/ UndefinedBehaviour

\* The tasks use a LockableObject or a ScopedLockAccess and read and store
\* through every accessor whose operator-> lets them.
AccessorApiSpec == AccessorInit /\ [][AccessorApiNext]_vars

\* C31: the protected object changes only in a step taken while a task holds
\* the exclusive lock through a write accessor, and never while a read
\* accessor is holding, so that read accesses with no exclusive acquisition
\* between them see equal values.
C31_ModifiedOnlyUnderExclusiveAccess ==
    [][/\ m_protected' # m_protected
            => \E t \in Threads : m_mutex.exclusive = t /\ writeGuard[t]
       /\ m_mutex.shared > 0 => m_protected' = m_protected]_vars

----
(* Tasks sharing an object of either class *)

AnyInit == \E o \in Objects : InitFor(o)

AnyNext == \E t \in Threads : Step(t) \/ LockableStep(t) \/ ScopedStep(t)

AnySpec == AnyInit /\ [][AnyNext]_vars

\* The steps of task t that return within a bounded time whatever the other
\* tasks do: the steps of Running(t), and the timed wait of getReadAccess(),
\* which ends after minBlockTime at the latest.
NonBlocking(t) ==
    \/ Running(t)
    \/ ReadAccessAcquire(t) \/ ReadAccessTimeout(t)

\* Every task that can run does run.  Nothing is assumed about a task that
\* waits for a semaphore or about a holder releasing what it holds.
AnyFairSpec ==
    AnyInit /\ [][AnyNext]_vars /\ \A t \in Threads : WF_vars(NonBlocking(t))

\* C13: every call of try_lock(), try_lock_shared() and getReadAccess()
\* returns, whatever the other tasks do and even if a writer holds the lock or
\* waits for readers to drain for ever.
C13_NonBlockingReturns ==
    \A t \in Threads :
        /\ (pc[t] = "try_lock_take_mutex") ~> TryLockReturned(t)
        /\ (pc[t] = "try_lock_shared_take_mutex") ~> ReadAccessReturned(t)
        /\ (pc[t] = "read_access_wait") ~> GetReadAccessReturned(t)

\* C13 witness: try_lock_shared() has returned to one task while a writer is
\* still inside lock(), waiting for the readers to drain.
C13_Witness ==
    \E t, w \in Threads :
        /\ pc[w] \in {"lock_drain_delay", "lock_drain_check"}
        /\ ReadAccessReturned(t)

====
